---- MODULE Spec2Model ----
(***************************************************************************)
(* Rank fusion of TREC runs (scripts/run_hybrid.py): reciprocal rank       *)
(* fusion, min-max normalised linear combination, CombSUM and CombMNZ.     *)
(*                                                                         *)
(* A run is a function from query ids to sequences of <<docid, rank,       *)
(* score>>.  Python dicts are modelled as association lists in insertion   *)
(* order, Python floats as ratios <<numerator, denominator>> in lowest     *)
(* terms.  Every float operation goes through Round: under arith =         *)
(* "exact" it is the identity (real arithmetic), under arith = "float" it  *)
(* rounds to the nearest binary floating point number with MantBits        *)
(* significant bits, ties to even, as IEEE-754 does with 53 bits.          *)
(***************************************************************************)
EXTENDS Integers, Sequences, FiniteSets, TLC

\* ------------------------------------------------------------------ bounds
MaxRuns == 2        \* runs passed to one fusion call
MaxRunsF == 3       \* the same, in the floating point specification
MaxEntries == 3     \* (docid, rank, score) triples over all runs of a call
MaxRank == 2        \* ranks are 1..MaxRank
MaxScore == 2       \* scores are 1..MaxScore
MaxK == 0           \* RRF constants are 0..MaxK and the default
MantBits == 5       \* significant bits of a float under arith = "float"
MaxRunsQ == 2       \* runs of a call in the two-query specification
MaxEntriesQ == 2    \* triples over all runs in the two-query specification
MaxResults == 3     \* (qid, docid, score) results passed to write_trec_run
MaxLines == 3       \* lines of a run file that another program wrote
MaxFileRank == 3    \* rank fields of such a file are 1..MaxFileRank
MaxText == 2        \* characters of a topic's query text
MaxChunks == 4      \* lines of a topics file that another program wrote
MaxFeedback == 2    \* feedback documents passed to expand_query
MaxDocLen == 2      \* tokens of a feedback document
MaxTerms == 2       \* num_terms is 0..MaxTerms
MaxEntriesH == 2    \* records of the two run files of run_hybrid_retrieval together
MaxEntriesA == 4    \* entries of the two runs of the two-run fusion together
MaxTopK == 2        \* top_k is -1..MaxTopK

QIds == {"q1"}
DocIds == {"d1", "d2"}

VARIABLES runs, arith, pc, call, out
vars == <<runs, arith, pc, call, out>>

\* ------------------------------------------------------------- arithmetic
Abs(i) == IF i < 0 THEN -i ELSE i

RECURSIVE GCD(_, _)
GCD(a, b) == IF b = 0 THEN a ELSE GCD(b, a % b)

RECURSIVE Pow2(_)
Pow2(n) == IF n = 0 THEN 1 ELSE 2 * Pow2(n - 1)

\* the ratio n/d in lowest terms with a positive denominator
Rat(n, d) ==
    LET g == GCD(Abs(n), Abs(d))
        s == IF d < 0 THEN -1 ELSE 1
    IN  <<(s * n) \div g, (s * d) \div g>>

Zero == <<0, 1>>
One == <<1, 1>>
FromInt(i) == <<i, 1>>

\* comparisons over the common denominator
RLess(x, y) ==
    LET g == GCD(x[2], y[2]) IN x[1] * (y[2] \div g) < y[1] * (x[2] \div g)
RLeq(x, y) == x = y \/ RLess(x, y)
RNeg(x) == <<-x[1], x[2]>>
RAbs(x) == <<Abs(x[1]), x[2]>>

RAdd(x, y) ==
    LET g == GCD(x[2], y[2])
    IN  Rat(x[1] * (y[2] \div g) + y[1] * (x[2] \div g), (x[2] \div g) * y[2])

RSub(x, y) == RAdd(x, RNeg(y))

RMul(x, y) ==
    LET g1 == GCD(Abs(x[1]), y[2])
        g2 == GCD(Abs(y[1]), x[2])
    IN  IF x[1] = 0 \/ y[1] = 0 THEN Zero
        ELSE <<(x[1] \div g1) * (y[1] \div g2), (x[2] \div g2) * (y[2] \div g1)>>

\* y # 0
RDiv(x, y) == RMul(x, IF y[1] < 0 THEN <<-y[2], -y[1]>> ELSE <<y[2], y[1]>>)

\* the largest e with 2^e <= n/d, for n/d > 0
RECURSIVE ExpUp(_, _, _)
ExpUp(n, d, e) == IF n < 2 * d THEN e ELSE ExpUp(n, 2 * d, e + 1)
RECURSIVE ExpDown(_, _, _)
ExpDown(n, d, e) == IF n >= d THEN e ELSE ExpDown(2 * n, d, e - 1)
Exponent(x) == IF x[1] >= x[2] THEN ExpUp(x[1], x[2], 0) ELSE ExpDown(x[1], x[2], 0)

\* x * 2^s
Scale(x, s) == IF s >= 0 THEN RMul(x, <<Pow2(s), 1>>) ELSE RMul(x, <<1, Pow2(-s)>>)

\* round to nearest, ties to even, keeping p significant bits
RoundBits(x, p) ==
    IF x[1] = 0 THEN Zero
    ELSE LET a == RAbs(x)
             s == p - 1 - Exponent(a)
             q == Scale(a, s)
             fl == q[1] \div q[2]
             rem == q[1] - fl * q[2]
             m == IF 2 * rem > q[2] \/ (2 * rem = q[2] /\ fl % 2 = 1)
                  THEN fl + 1 ELSE fl
             r == Scale(<<m, 1>>, -s)
         IN  IF x[1] < 0 THEN RNeg(r) ELSE r

Round(x) == IF arith = "float" THEN RoundBits(x, MantBits) ELSE x

Add(x, y) == Round(RAdd(x, y))
Sub(x, y) == Round(RSub(x, y))
Mul(x, y) == Round(RMul(x, y))
Div(x, y) == Round(RDiv(x, y))

\* -------------------------------------------------------------- helpers
\* Python dict: sequence of <<key, value>> in insertion order
Keys(dict) == {dict[i][1] : i \in DOMAIN dict}
Get(dict, key) == dict[CHOOSE i \in DOMAIN dict : dict[i][1] = key][2]

\* dict[key] = value: a new key goes last, an old key keeps its place
DictSet(dict, key, value) ==
    IF key \in Keys(dict)
    THEN [i \in DOMAIN dict |-> IF dict[i][1] = key THEN <<key, value>> ELSE dict[i]]
    ELSE Append(dict, <<key, value>>)

\* defaultdict(float): dict[key] += value
DictAdd(dict, key, value) ==
    DictSet(dict, key, Add(IF key \in Keys(dict) THEN Get(dict, key) ELSE Zero, value))

\* defaultdict(int): dict[key] += 1
DictIncr(dict, key) ==
    DictSet(dict, key, (IF key \in Keys(dict) THEN Get(dict, key) ELSE 0) + 1)

\* mutant: an entry goes in front of the entries of equal score
RECURSIVE InsertDesc_unstable(_, _)
InsertDesc_unstable(sorted, x) ==
    IF sorted = <<>> THEN <<x>>
    ELSE IF RLeq(Head(sorted)[2], x[2]) THEN <<x>> \o sorted
    ELSE <<Head(sorted)>> \o InsertDesc_unstable(Tail(sorted), x)

\* sorted(items, key=lambda x: x[1], reverse=True): stable, descending
RECURSIVE InsertDesc(_, _)
InsertDesc(sorted, x) ==
    IF sorted = <<>> THEN <<x>>
    ELSE IF RLess(Head(sorted)[2], x[2]) THEN <<x>> \o sorted
    ELSE <<Head(sorted)>> \o InsertDesc(Tail(sorted), x)

RECURSIVE SortInto(_, _)
SortInto(sorted, items) ==
    IF items = <<>> THEN sorted
    ELSE SortInto(InsertDesc(sorted, Head(items)), Tail(items))

\* mutant: the sorted list cut to its best entry
sorted_docs_top1(items) ==
    LET s == SortInto(<<>>, items) IN IF s = <<>> THEN s ELSE <<Head(s)>>

sorted_docs(items) == SortInto(<<>>, items)

RECURSIVE MinOf(_)
MinOf(s) == IF Len(s) = 1 THEN s[1]
            ELSE LET m == MinOf(Tail(s)) IN IF RLess(m, s[1]) THEN m ELSE s[1]
RECURSIVE MaxOf(_)
MaxOf(s) == IF Len(s) = 1 THEN s[1]
            ELSE LET m == MaxOf(Tail(s)) IN IF RLess(s[1], m) THEN m ELSE s[1]

\* all_qids: the union of the runs' keys
all_qids(rs) == UNION {DOMAIN rs[i] : i \in DOMAIN rs}

Ok(fused) == [kind |-> "ok", exc |-> "none", fused |-> fused]
Raise(exc) == [kind |-> "raise", exc |-> exc, fused |-> <<>>]

\* ------------------------------------------------ reciprocal_rank_fusion
\* mutant: ranks taken as 0-based, 1.0 / (k + rank + 1)
RECURSIVE rrf_entries_plus1(_, _, _)
rrf_entries_plus1(doc_scores, entries, k) ==
    IF entries = <<>> THEN doc_scores
    ELSE LET docid == Head(entries)[1]
             rank == Head(entries)[2]
             rrf_score == Div(One, FromInt(k + rank + 1))
         IN  rrf_entries_plus1(DictAdd(doc_scores, docid, rrf_score), Tail(entries), k)

\* mutant: the reciprocal rank weighted by the score, score / (k + rank)
RECURSIVE rrf_entries_scored(_, _, _)
rrf_entries_scored(doc_scores, entries, k) ==
    IF entries = <<>> THEN doc_scores
    ELSE LET docid == Head(entries)[1]
             rank == Head(entries)[2]
             rrf_score == Div(FromInt(Head(entries)[3]), FromInt(k + rank))
         IN  rrf_entries_scored(DictAdd(doc_scores, docid, rrf_score), Tail(entries), k)

\* mutant: a doc id keeps the best of its terms, the terms are not added up
RECURSIVE rrf_entries_best(_, _, _)
rrf_entries_best(doc_scores, entries, k) ==
    IF entries = <<>> THEN doc_scores
    ELSE LET docid == Head(entries)[1]
             rank == Head(entries)[2]
             rrf_score == Div(One, FromInt(k + rank))
             old == IF docid \in Keys(doc_scores) THEN Get(doc_scores, docid)
                    ELSE Zero
         IN  rrf_entries_best(
                DictSet(doc_scores, docid,
                        IF RLess(old, rrf_score) THEN rrf_score ELSE old),
                Tail(entries), k)

\* for docid, rank, _ in run[qid]: doc_scores[docid] += 1.0 / (k + rank)
RECURSIVE rrf_entries(_, _, _)
rrf_entries(doc_scores, entries, k) ==
    IF entries = <<>> THEN doc_scores
    ELSE LET docid == Head(entries)[1]
             rank == Head(entries)[2]
             rrf_score == Div(One, FromInt(k + rank))
         IN  rrf_entries(DictAdd(doc_scores, docid, rrf_score), Tail(entries), k)

\* for run in runs: if qid not in run: continue
RECURSIVE rrf_runs(_, _, _, _)
rrf_runs(doc_scores, rs, qid, k) ==
    IF rs = <<>> THEN doc_scores
    ELSE LET run == Head(rs)
         IN  rrf_runs(IF qid \notin DOMAIN run THEN doc_scores
                      ELSE rrf_entries(doc_scores, run[qid], k),
                      Tail(rs), qid, k)

\* mutant: doc_scores created once before the loop over the query ids, so
\* the second query starts from the first query's accumulators
reciprocal_rank_fusion_shared(rs, k) ==
    Ok([qid \in all_qids(rs) |->
        LET first == CHOOSE q \in all_qids(rs) : TRUE
        IN  sorted_docs(IF qid = first THEN rrf_runs(<<>>, rs, qid, k)
                        ELSE rrf_runs(rrf_runs(<<>>, rs, first, k), rs, qid, k))])

reciprocal_rank_fusion(rs, k) ==
    Ok([qid \in all_qids(rs) |-> sorted_docs(rrf_runs(<<>>, rs, qid, k))])

\* ------------------------------------------- min-max normalisation
\* mutant: the first entry of a doc id is kept, later ones are dropped
RECURSIVE norm_entries_first(_, _, _, _)
norm_entries_first(dict, entries, min_score, score_range) ==
    IF entries = <<>> THEN dict
    ELSE LET docid == Head(entries)[1]
             score == FromInt(Head(entries)[3])
             value == IF score_range = Zero THEN One
                      ELSE Div(Sub(score, min_score), score_range)
         IN  norm_entries_first(IF docid \in Keys(dict) THEN dict
                                ELSE DictSet(dict, docid, value),
                                Tail(entries), min_score, score_range)

\* mutant: score / (max - min), the minimum not subtracted
RECURSIVE norm_entries_nomin(_, _, _, _)
norm_entries_nomin(dict, entries, min_score, score_range) ==
    IF entries = <<>> THEN dict
    ELSE LET docid == Head(entries)[1]
             score == FromInt(Head(entries)[3])
             value == IF score_range = Zero THEN One
                      ELSE Div(score, score_range)
         IN  norm_entries_nomin(DictSet(dict, docid, value), Tail(entries),
                                min_score, score_range)

\* mutant: equal scores normalised to 0.0
RECURSIVE norm_entries_zero(_, _, _, _)
norm_entries_zero(dict, entries, min_score, score_range) ==
    IF entries = <<>> THEN dict
    ELSE LET docid == Head(entries)[1]
             score == FromInt(Head(entries)[3])
             value == IF score_range = Zero THEN Zero
                      ELSE Div(Sub(score, min_score), score_range)
         IN  norm_entries_zero(DictSet(dict, docid, value), Tail(entries),
                               min_score, score_range)

\* the dict comprehension {docid: ... for docid, _, score in run[qid]}
RECURSIVE norm_entries(_, _, _, _)
norm_entries(dict, entries, min_score, score_range) ==
    IF entries = <<>> THEN dict
    ELSE LET docid == Head(entries)[1]
             score == FromInt(Head(entries)[3])
             value == IF score_range = Zero THEN One
                      ELSE Div(Sub(score, min_score), score_range)
         IN  norm_entries(DictSet(dict, docid, value), Tail(entries),
                          min_score, score_range)

\* entries is not empty
normalized_scores(entries) ==
    LET scores == [i \in DOMAIN entries |-> FromInt(entries[i][3])]
        min_score == MinOf(scores)
        max_score == MaxOf(scores)
        score_range == Sub(max_score, min_score)
    IN  norm_entries(<<>>, entries, min_score, score_range)

\* ---------------------------------------------------- linear_combination
\* mutant: the weight left out, doc_scores[docid] += norm_score
RECURSIVE lin_items_unweighted(_, _, _)
lin_items_unweighted(doc_scores, items, weight) ==
    IF items = <<>> THEN doc_scores
    ELSE lin_items_unweighted(DictAdd(doc_scores, Head(items)[1], Head(items)[2]),
                              Tail(items), weight)

\* for docid, norm_score in normalized_scores.items():
\*     doc_scores[docid] += weight * norm_score
RECURSIVE lin_items(_, _, _)
lin_items(doc_scores, items, weight) ==
    IF items = <<>> THEN doc_scores
    ELSE lin_items(DictAdd(doc_scores, Head(items)[1], Mul(weight, Head(items)[2])),
                   Tail(items), weight)

\* mutant: a run without the query does not use up its weight
RECURSIVE lin_runs_lagging(_, _, _, _)
lin_runs_lagging(doc_scores, rs, weights, qid) ==
    IF rs = <<>> \/ weights = <<>> THEN doc_scores
    ELSE LET run == Head(rs)
         IN  IF qid \notin DOMAIN run
             THEN lin_runs_lagging(doc_scores, Tail(rs), weights, qid)
             ELSE lin_runs_lagging(
                    IF run[qid] = <<>> THEN doc_scores
                    ELSE lin_items(doc_scores, normalized_scores(run[qid]),
                                   Head(weights)),
                    Tail(rs), Tail(weights), qid)

\* for run, weight in zip(runs, weights)
RECURSIVE lin_runs(_, _, _, _)
lin_runs(doc_scores, rs, weights, qid) ==
    IF rs = <<>> \/ weights = <<>> THEN doc_scores
    ELSE LET run == Head(rs)
         IN  lin_runs(IF qid \notin DOMAIN run THEN doc_scores
                      ELSE IF run[qid] = <<>> THEN doc_scores
                      ELSE lin_items(doc_scores, normalized_scores(run[qid]),
                                     Head(weights)),
                      Tail(rs), Tail(weights), qid)

\* sum(weights)
RECURSIVE SumFrom(_, _)
SumFrom(acc, s) == IF s = <<>> THEN acc ELSE SumFrom(Add(acc, Head(s)), Tail(s))

Tolerance == Round(<<1, 1000000>>)

linear_fuse(rs, weights) ==
    IF Len(weights) # Len(rs) THEN Raise("AssertionError")
    ELSE IF ~RLess(RAbs(Sub(SumFrom(Zero, weights), One)), Tolerance)
    THEN Raise("AssertionError")
    ELSE Ok([qid \in all_qids(rs) |-> sorted_docs(lin_runs(<<>>, rs, weights, qid))])

\* weights is None: isdefault; [1.0 / len(runs)] * len(runs)
linear_combination(rs, isdefault, weights) ==
    IF isdefault
    THEN IF Len(rs) = 0 THEN Raise("ZeroDivisionError")
         ELSE linear_fuse(rs, [i \in 1..Len(rs) |-> Div(One, FromInt(Len(rs)))])
    ELSE linear_fuse(rs, weights)

\* ---------------------------------------------------------------- combsum
RECURSIVE sum_items(_, _)
sum_items(doc_scores, items) ==
    IF items = <<>> THEN doc_scores
    ELSE sum_items(DictAdd(doc_scores, Head(items)[1], Head(items)[2]), Tail(items))

RECURSIVE sum_runs(_, _, _)
sum_runs(doc_scores, rs, qid) ==
    IF rs = <<>> THEN doc_scores
    ELSE LET run == Head(rs)
         IN  sum_runs(IF qid \notin DOMAIN run THEN doc_scores
                      ELSE IF run[qid] = <<>> THEN doc_scores
                      ELSE sum_items(doc_scores, normalized_scores(run[qid])),
                      Tail(rs), qid)

combsum(rs) ==
    Ok([qid \in all_qids(rs) |-> sorted_docs(sum_runs(<<>>, rs, qid))])

\* ---------------------------------------------------------------- combmnz
\* mutant: a run counts only when the normalised score is not zero
RECURSIVE mnz_items_nonzero(_, _)
mnz_items_nonzero(acc, items) ==
    IF items = <<>> THEN acc
    ELSE mnz_items_nonzero(
            [doc_scores |-> DictAdd(acc.doc_scores, Head(items)[1], Head(items)[2]),
             doc_counts |-> IF Head(items)[2] = Zero
                            THEN DictSet(acc.doc_counts, Head(items)[1],
                                         IF Head(items)[1] \in Keys(acc.doc_counts)
                                         THEN Get(acc.doc_counts, Head(items)[1]) ELSE 0)
                            ELSE DictIncr(acc.doc_counts, Head(items)[1])],
            Tail(items))

\* for docid, norm_score in normalized_scores.items():
\*     doc_scores[docid] += norm_score; doc_counts[docid] += 1
RECURSIVE mnz_items(_, _)
mnz_items(acc, items) ==
    IF items = <<>> THEN acc
    ELSE mnz_items([doc_scores |-> DictAdd(acc.doc_scores, Head(items)[1], Head(items)[2]),
                    doc_counts |-> DictIncr(acc.doc_counts, Head(items)[1])],
                   Tail(items))

RECURSIVE mnz_runs(_, _, _)
mnz_runs(acc, rs, qid) ==
    IF rs = <<>> THEN acc
    ELSE LET run == Head(rs)
         IN  mnz_runs(IF qid \notin DOMAIN run THEN acc
                      ELSE IF run[qid] = <<>> THEN acc
                      ELSE mnz_items(acc, normalized_scores(run[qid])),
                      Tail(rs), qid)

\* final_scores[docid] = sum_score * doc_counts[docid]
final_scores(acc) ==
    [i \in DOMAIN acc.doc_scores |->
        <<acc.doc_scores[i][1],
          Mul(acc.doc_scores[i][2], FromInt(Get(acc.doc_counts, acc.doc_scores[i][1])))>>]

combmnz(rs) ==
    Ok([qid \in all_qids(rs) |->
        sorted_docs(final_scores(mnz_runs([doc_scores |-> <<>>, doc_counts |-> <<>>],
                                          rs, qid)))])

\* ------------------------------------------------------------ the callers
DefaultK == 60
RrfKs == (0..MaxK) \cup {DefaultK}

\* weight vectors a caller passes: right and wrong lengths, sums on both
\* sides of the 1e-6 tolerance, a negative weight
WeightVectors ==
    { <<>>, <<One>>,
      <<Rat(1, 2), Rat(1, 2)>>, <<Rat(1, 4), Rat(3, 4)>>,
      <<Rat(3, 2), Rat(-1, 2)>>, <<Rat(1, 2), Rat(1, 4)>>,
      <<Rat(1, 2), Rat(1000001, 2000000)>>, <<Rat(1, 2), Rat(500001, 1000000)>> }

NoCall == [fn |-> "none", k |-> 0, isdefault |-> TRUE, weights |-> <<>>]
NoOut == [kind |-> "none", exc |-> "none", fused |-> <<>>]

RECURSIVE CountEntries(_)
CountEntries(rs) ==
    IF rs = <<>> THEN 0
    ELSE LET run == Head(rs)
             RECURSIVE Sum(_)
             Sum(S) == IF S = {} THEN 0
                       ELSE LET q == CHOOSE q \in S : TRUE
                            IN  Len(run[q]) + Sum(S \ {q})
         IN  Sum(DOMAIN run) + CountEntries(Tail(rs))

Init ==
    /\ runs = <<>>
    /\ arith = "exact"
    /\ pc = "input"
    /\ call = NoCall
    /\ out = NoOut

\* the caller starts another run: a dict with some query ids, no entries yet
NewRun ==
    /\ pc = "input"
    /\ Len(runs) < MaxRuns
    /\ \E K \in SUBSET QIds : runs' = Append(runs, [q \in K |-> <<>>])
    /\ UNCHANGED <<arith, pc, call, out>>

AppendEntry(q, docid, rank, score) ==
    runs' = [runs EXCEPT ![Len(runs)][q] = Append(@, <<docid, rank, score>>)]

\* the caller appends a (docid, rank, score) triple to the newest run
AddEntry ==
    /\ pc = "input"
    /\ runs # <<>>
    /\ CountEntries(runs) < MaxEntries
    /\ \E q \in DOMAIN runs[Len(runs)], docid \in DocIds,
          rank \in 1..MaxRank, score \in 1..MaxScore :
            AppendEntry(q, docid, rank, score)
    /\ UNCHANGED <<arith, pc, call, out>>

CallRRF ==
    /\ pc = "input"
    /\ \E k \in RrfKs :
        /\ call' = [NoCall EXCEPT !.fn = "reciprocal_rank_fusion", !.k = k]
        /\ out' = reciprocal_rank_fusion(runs, k)
    /\ pc' = "called"
    /\ UNCHANGED <<runs, arith>>

\* the same call again on runs that differ from the last ones in one score
CallRRFRescored ==
    /\ pc \in {"called", "recalled"}
    /\ call.fn = "reciprocal_rank_fusion"
    /\ \E r \in DOMAIN runs :
         \E q \in DOMAIN runs[r] :
           \E i \in DOMAIN runs[r][q], score \in 1..MaxScore :
             /\ score # runs[r][q][i][3]
             /\ runs' = [runs EXCEPT ![r][q][i][3] = score]
    /\ out' = reciprocal_rank_fusion(runs', call.k)
    /\ pc' = "recalled"
    /\ UNCHANGED <<arith, call>>

CallLinearDefault ==
    /\ pc = "input"
    /\ call' = [NoCall EXCEPT !.fn = "linear_combination"]
    /\ out' = linear_combination(runs, TRUE, <<>>)
    /\ pc' = "called"
    /\ UNCHANGED <<runs, arith>>

CallLinearWeights ==
    /\ pc = "input"
    /\ \E weights \in WeightVectors :
        /\ call' = [NoCall EXCEPT !.fn = "linear_combination",
                                  !.isdefault = FALSE, !.weights = weights]
        /\ out' = linear_combination(runs, FALSE, weights)
    /\ pc' = "called"
    /\ UNCHANGED <<runs, arith>>

CallCombsum ==
    /\ pc = "input"
    /\ call' = [NoCall EXCEPT !.fn = "combsum"]
    /\ out' = combsum(runs)
    /\ pc' = "called"
    /\ UNCHANGED <<runs, arith>>

CallCombmnz ==
    /\ pc = "input"
    /\ call' = [NoCall EXCEPT !.fn = "combmnz"]
    /\ out' = combmnz(runs)
    /\ pc' = "called"
    /\ UNCHANGED <<runs, arith>>

Next ==
    \/ NewRun
    \/ AddEntry
    \/ CallRRF
    \/ CallRRFRescored
    \/ CallLinearDefault
    \/ CallLinearWeights
    \/ CallCombsum
    \/ CallCombmnz

Spec == Init /\ [][Next]_vars

\* --------------------------------------- the floating point specification
\* The same calls evaluated both ways: arith is chosen at the start.  Every
\* run has an entry for the query, ranks go by position as a written run has
\* them, and the scores are picked so that 7/8 is a normalised value.
FloatScores == {0, 7, 8}

InitFloat ==
    /\ runs = <<>>
    /\ arith \in {"exact", "float"}
    /\ pc = "input"
    /\ call = NoCall
    /\ out = NoOut

NewRunF ==
    /\ pc = "input"
    /\ Len(runs) < MaxRunsF
    /\ runs' = Append(runs, [q \in QIds |-> <<>>])
    /\ UNCHANGED <<arith, pc, call, out>>

AddEntryF ==
    /\ pc = "input"
    /\ runs # <<>>
    /\ CountEntries(runs) < MaxEntries
    /\ \E q \in DOMAIN runs[Len(runs)], docid \in DocIds, score \in FloatScores :
            AppendEntry(q, docid, Len(runs[Len(runs)][q]) + 1, score)
    /\ UNCHANGED <<arith, pc, call, out>>

NextFloat ==
    \/ NewRunF
    \/ AddEntryF
    \/ CallLinearDefault
    \/ CallCombsum

SpecFloat == InitFloat /\ [][NextFloat]_vars

\* ------------------------------------------- the two-query specification
\* Runs over two query ids; after a call the caller edits the runs (adds or
\* drops a query id of a run, appends a triple, changes a score) and makes
\* the same call again.
QIdsQ == {"q1", "q2"}

\* the dispatch on the fusion method
Fuse(c, rs) ==
    CASE c.fn = "reciprocal_rank_fusion" -> reciprocal_rank_fusion(rs, c.k)
      [] c.fn = "linear_combination" -> linear_combination(rs, c.isdefault, c.weights)
      [] c.fn = "combsum" -> combsum(rs)
      [] c.fn = "combmnz" -> combmnz(rs)

NewRunQ ==
    /\ pc = "input"
    /\ Len(runs) < MaxRunsQ
    /\ \E K \in SUBSET QIdsQ : runs' = Append(runs, [q \in K |-> <<>>])
    /\ UNCHANGED <<arith, pc, call, out>>

AddEntryQ ==
    /\ pc = "input"
    /\ runs # <<>>
    /\ CountEntries(runs) < MaxEntriesQ
    /\ \E q \in DOMAIN runs[Len(runs)], docid \in DocIds, score \in 1..MaxScore :
            AppendEntry(q, docid, Len(runs[Len(runs)][q]) + 1, score)
    /\ UNCHANGED <<arith, pc, call, out>>

EditAndCallAgain ==
    /\ pc \in {"called", "recalled"}
    /\ \E r \in DOMAIN runs, q \in QIdsQ :
        \/ /\ q \notin DOMAIN runs[r]
           /\ runs' = [runs EXCEPT ![r] =
                          [x \in DOMAIN runs[r] \cup {q} |->
                              IF x = q THEN <<>> ELSE runs[r][x]]]
        \/ /\ q \in DOMAIN runs[r]
           /\ runs' = [runs EXCEPT ![r] = [x \in DOMAIN runs[r] \ {q} |-> runs[r][x]]]
        \/ /\ q \in DOMAIN runs[r]
           /\ CountEntries(runs) < MaxEntriesQ
           /\ \E docid \in DocIds, score \in 1..MaxScore :
                runs' = [runs EXCEPT ![r][q] =
                            Append(@, <<docid, Len(@) + 1, score>>)]
        \/ /\ q \in DOMAIN runs[r]
           /\ \E i \in DOMAIN runs[r][q], score \in 1..MaxScore :
                /\ score # runs[r][q][i][3]
                /\ runs' = [runs EXCEPT ![r][q][i][3] = score]
    /\ out' = Fuse(call, runs')
    /\ pc' = "recalled"
    /\ UNCHANGED <<arith, call>>

NextQueries ==
    \/ NewRunQ
    \/ AddEntryQ
    \/ CallRRF
    \/ CallLinearDefault
    \/ CallLinearWeights
    \/ CallCombsum
    \/ CallCombmnz
    \/ EditAndCallAgain

SpecQueries == Init /\ [][NextQueries]_vars

\* ------------------------------------------------- text (scripts/utils_io.py)
\* A Python str is a sequence of one-character strings, a text file a
\* sequence of lines without their newline.
Space == " "
Whitespace == {" ", "\t"}
DigitChars == <<"0", "1", "2", "3", "4", "5", "6", "7", "8", "9">>
IsDigit(c) == \E i \in DOMAIN DigitChars : DigitChars[i] = c
DigitValue(c) == (CHOOSE i \in DOMAIN DigitChars : DigitChars[i] = c) - 1

\* the characters in code point order, for comparing strings
CodeOrder ==
    <<"\t", "\n", " ", "-", ".">> \o DigitChars
        \o <<"<", "Q", "a", "b", "d", "m", "q", "r", "x">>
CodeOf(c) == CHOOSE i \in DOMAIN CodeOrder : CodeOrder[i] = c

\* a < b on strings
RECURSIVE StrLess(_, _)
StrLess(a, b) ==
    IF b = <<>> THEN FALSE
    ELSE IF a = <<>> THEN TRUE
    ELSE IF Head(a) # Head(b) THEN CodeOf(Head(a)) < CodeOf(Head(b))
    ELSE StrLess(Tail(a), Tail(b))

\* str(n) for n >= 0
RECURSIVE IntStr(_)
IntStr(n) ==
    IF n < 10 THEN <<DigitChars[n + 1]>>
    ELSE IntStr(n \div 10) \o <<DigitChars[(n % 10) + 1]>>

\* n written with at least width digits
RECURSIVE ZeroPad(_, _)
ZeroPad(str, width) ==
    IF Len(str) >= width THEN str ELSE ZeroPad(<<"0">> \o str, width)

\* the nearest integer to n / d for n >= 0, halves to the even one
RoundHalfEven(n, d) ==
    LET q == n \div d
        r == n % d
    IN  IF 2 * r < d THEN q
        ELSE IF 2 * r > d THEN q + 1
        ELSE IF q % 2 = 0 THEN q ELSE q + 1

\* f"{score:.6f}"
FormatFixed6(score) ==
    LET micro == RoundHalfEven(Abs(score[1]) * 1000000, score[2])
        text == IntStr(micro \div 1000000) \o <<".">>
                    \o ZeroPad(IntStr(micro % 1000000), 6)
    IN  IF score[1] < 0 THEN <<"-">> \o text ELSE text

\* str.split(): the maximal runs of non-whitespace characters
RECURSIVE SplitFrom(_, _, _)
SplitFrom(rest, word, parts) ==
    IF rest = <<>> THEN (IF word = <<>> THEN parts ELSE Append(parts, word))
    ELSE IF Head(rest) \in Whitespace
         THEN SplitFrom(Tail(rest), <<>>,
                        IF word = <<>> THEN parts ELSE Append(parts, word))
         ELSE SplitFrom(Tail(rest), Append(word, Head(rest)), parts)

Split(line) == SplitFrom(line, <<>>, <<>>)

\* " ".join(words)
RECURSIVE JoinSpace(_)
JoinSpace(words) ==
    IF words = <<>> THEN <<>>
    ELSE IF Len(words) = 1 THEN words[1]
    ELSE words[1] \o <<Space>> \o JoinSpace(Tail(words))

AllDigits(str) == \A i \in DOMAIN str : IsDigit(str[i])

RECURSIVE DigitsValue(_)
DigitsValue(str) ==
    IF str = <<>> THEN 0
    ELSE 10 * DigitsValue(SubSeq(str, 1, Len(str) - 1)) + DigitValue(str[Len(str)])

Unsigned(str) ==
    IF str # <<>> /\ Head(str) = "-" THEN Tail(str) ELSE str

\* int(str) succeeds: an optional sign and at least one digit
IsInt(str) == Unsigned(str) # <<>> /\ AllDigits(Unsigned(str))

IntOf(str) ==
    IF Head(str) = "-" THEN 0 - DigitsValue(Unsigned(str))
    ELSE DigitsValue(str)

\* the position of the first "." of str, 0 when it has none
DotAt(str) ==
    IF \E i \in DOMAIN str : str[i] = "."
    THEN CHOOSE i \in DOMAIN str :
            str[i] = "." /\ \A j \in 1..(i - 1) : str[j] # "."
    ELSE 0

WholePart(str) ==
    IF DotAt(str) = 0 THEN str ELSE SubSeq(str, 1, DotAt(str) - 1)
FracPart(str) ==
    IF DotAt(str) = 0 THEN <<>> ELSE SubSeq(str, DotAt(str) + 1, Len(str))

\* float(str) succeeds: an optional sign, digits, at most one "."
IsFloat(str) ==
    LET u == Unsigned(str)
    IN  /\ AllDigits(WholePart(u))
        /\ AllDigits(FracPart(u))
        /\ Len(WholePart(u)) + Len(FracPart(u)) >= 1

RECURSIVE Pow10(_)
Pow10(n) == IF n = 0 THEN 1 ELSE 10 * Pow10(n - 1)

FloatOf(str) ==
    LET u == Unsigned(str)
        value == Rat(DigitsValue(WholePart(u)) * Pow10(Len(FracPart(u)))
                        + DigitsValue(FracPart(u)),
                     Pow10(Len(FracPart(u))))
    IN  Round(IF Head(str) = "-" THEN RNeg(value) ELSE value)

\* --------------------------------------------------------- write_trec_run
\* for qid, docid, score in results: query_results[qid].append((docid, score))
RECURSIVE query_results(_, _)
query_results(dict, results) ==
    IF results = <<>> THEN dict
    ELSE LET qid == Head(results)[1]
             old == IF qid \in Keys(dict) THEN Get(dict, qid) ELSE <<>>
         IN  query_results(
                DictSet(dict, qid, Append(old, <<Head(results)[2], Head(results)[3]>>)),
                Tail(results))

\* sorted(query_results.keys())
RECURSIVE InsertKey(_, _)
InsertKey(sorted, key) ==
    IF sorted = <<>> THEN <<key>>
    ELSE IF StrLess(key, Head(sorted)) THEN <<key>> \o sorted
    ELSE <<Head(sorted)>> \o InsertKey(Tail(sorted), key)

RECURSIVE sorted_keys(_, _)
sorted_keys(sorted, dict) ==
    IF dict = <<>> THEN sorted
    ELSE sorted_keys(InsertKey(sorted, Head(dict)[1]), Tail(dict))

\* mutant: one record too many, docs[:max_rank + 1]
TopSlice_plus1(docs, max_rank) ==
    SubSeq(docs, 1, IF max_rank + 1 < Len(docs) THEN max_rank + 1 ELSE Len(docs))

\* docs[:max_rank]; a negative max_rank counts from the end
TopSlice(docs, max_rank) ==
    IF max_rank >= 0
    THEN SubSeq(docs, 1, IF max_rank < Len(docs) THEN max_rank ELSE Len(docs))
    ELSE SubSeq(docs, 1, IF Len(docs) + max_rank > 0 THEN Len(docs) + max_rank ELSE 0)

\* f"{qid} Q0 {docid} {rank} {score:.6f} {run_id}"
RunLine(qid, docid, rank, score, run_id) ==
    JoinSpace(<<qid, <<"Q", "0">>, docid, IntStr(rank), FormatFixed6(score), run_id>>)

\* the records of one query: enumerate(docs[:max_rank], start=1)
query_lines(qid, docs, run_id) ==
    [i \in DOMAIN docs |-> RunLine(qid, docs[i][1], i, docs[i][2], run_id)]

\* mutant: the records of a query sorted by ascending score
RECURSIVE write_queries_ascending(_, _, _, _)
write_queries_ascending(qids, dict, run_id, max_rank) ==
    IF qids = <<>> THEN <<>>
    ELSE LET desc == sorted_docs(Get(dict, Head(qids)))
             docs == [i \in DOMAIN desc |-> desc[Len(desc) + 1 - i]]
         IN  query_lines(Head(qids), TopSlice(docs, max_rank), run_id)
                \o write_queries_ascending(Tail(qids), dict, run_id, max_rank)

RECURSIVE write_queries(_, _, _, _)
write_queries(qids, dict, run_id, max_rank) ==
    IF qids = <<>> THEN <<>>
    ELSE LET docs == sorted_docs(Get(dict, Head(qids)))
         IN  query_lines(Head(qids), TopSlice(docs, max_rank), run_id)
                \o write_queries(Tail(qids), dict, run_id, max_rank)

\* the lines of the file write_trec_run leaves at output_path
write_trec_run(results, run_id, max_rank) ==
    LET dict == query_results(<<>>, results)
    IN  write_queries(sorted_keys(<<>>, dict), dict, run_id, max_rank)

\* ---------------------------------------------------------- read_trec_run
\* mutant: an entry goes in front of the entries of equal rank
RECURSIVE InsertByRank_unstable(_, _)
InsertByRank_unstable(sorted, x) ==
    IF sorted = <<>> THEN <<x>>
    ELSE IF x[2] <= Head(sorted)[2] THEN <<x>> \o sorted
    ELSE <<Head(sorted)>> \o InsertByRank_unstable(Tail(sorted), x)

\* run_data[qid].sort(key=lambda x: x[1]): stable, ascending by rank
RECURSIVE InsertByRank(_, _)
InsertByRank(sorted, x) ==
    IF sorted = <<>> THEN <<x>>
    ELSE IF x[2] < Head(sorted)[2] THEN <<x>> \o sorted
    ELSE <<Head(sorted)>> \o InsertByRank(Tail(sorted), x)

RECURSIVE sort_by_rank(_, _)
sort_by_rank(sorted, entries) ==
    IF entries = <<>> THEN sorted
    ELSE sort_by_rank(InsertByRank(sorted, Head(entries)), Tail(entries))

\* the loop over the lines: a line of fewer than six fields is passed over,
\* int() and float() raise ValueError on a field that is not a number
RECURSIVE read_lines(_, _)
read_lines(run_data, lines) ==
    IF lines = <<>>
    THEN Ok([qid \in Keys(run_data) |-> sort_by_rank(<<>>, Get(run_data, qid))])
    ELSE LET parts == Split(Head(lines))
         IN  IF Len(parts) < 6 THEN read_lines(run_data, Tail(lines))
             ELSE IF ~IsInt(parts[4]) THEN Raise("ValueError")
             ELSE IF ~IsFloat(parts[5]) THEN Raise("ValueError")
             ELSE LET qid == parts[1]
                      old == IF qid \in Keys(run_data) THEN Get(run_data, qid)
                             ELSE <<>>
                      entry == <<parts[3], IntOf(parts[4]), FloatOf(parts[5])>>
                  IN  read_lines(DictSet(run_data, qid, Append(old, entry)),
                                 Tail(lines))

read_trec_run(lines) == read_lines(<<>>, lines)

\* ------------------------------------- load_qrels (scripts/utils_topics.py)
\* the loop over the lines: a line of fewer than four fields is passed over,
\* int() raises ValueError on a relevance that is not a number
RECURSIVE qrels_lines(_, _)
qrels_lines(qrels, lines) ==
    IF lines = <<>>
    THEN Ok([qid \in Keys(qrels) |-> Get(qrels, qid)])
    ELSE LET parts == Split(Head(lines))
         IN  IF Len(parts) < 4 THEN qrels_lines(qrels, Tail(lines))
             ELSE IF ~IsInt(parts[4]) THEN Raise("ValueError")
             ELSE LET qid == parts[1]
                      old == IF qid \in Keys(qrels) THEN Get(qrels, qid) ELSE <<>>
                  IN  qrels_lines(
                        DictSet(qrels, qid, DictSet(old, parts[3], IntOf(parts[4]))),
                        Tail(lines))

load_qrels(lines) == qrels_lines(<<>>, lines)

\* ------------------------------------------------ the run file specification
\* call holds the arguments of write_trec_run and the lines of the file at
\* the path, out the outcome of read_trec_run on that file.  The file is
\* either written by write_trec_run or put there line by line by another
\* program, well-formed or not.
QIdStrs == {<<"q", "1">>, <<"q", "2">>}
DocStrs == {<<"d", "1">>, <<"d", "2">>}
RunIdStrs == {<<>>, <<" ">>, <<"r">>, <<"m", " ", "r">>}
ResultScores == {Rat(1, 2), Rat(5, 4)}
ScoreStrs == {FormatFixed6(score) : score \in ResultScores}

\* lines that are not records: too few fields, a rank or a score that is
\* not a number, nothing at all
BadLines ==
    { JoinSpace(<<<<"q", "1">>, <<"Q", "0">>, <<"d", "1">>, <<"1">>, <<"1", ".", "5">>>>),
      JoinSpace(<<<<"q", "1">>, <<"Q", "0">>, <<"d", "1">>, <<"x">>, <<"1", ".", "5">>, <<"r">>>>),
      JoinSpace(<<<<"q", "1">>, <<"Q", "0">>, <<"d", "1">>, <<"1">>, <<"x">>, <<"r">>>>),
      <<>> }

GoodLines ==
    { RunLine(qid, docid, rank, score, <<"r">>) :
        qid \in QIdStrs, docid \in DocStrs, rank \in 1..MaxFileRank,
        score \in {Rat(1, 2)} }

NoFile == [fn |-> "none", results |-> <<>>, run_id |-> <<>>, max_rank |-> 0,
           lines |-> <<>>]

InitIO ==
    /\ runs = <<>>
    /\ arith = "exact"
    /\ pc = "input"
    /\ call = NoFile
    /\ out = NoOut

AddResult ==
    /\ pc = "input"
    /\ Len(call.results) < MaxResults
    /\ \E qid \in QIdStrs, docid \in DocStrs, score \in ResultScores :
            call' = [call EXCEPT !.results = Append(@, <<qid, docid, score>>)]
    /\ UNCHANGED <<runs, arith, pc, out>>

WriteRun ==
    /\ pc = "input"
    /\ \E run_id \in RunIdStrs, max_rank \in (-1)..MaxResults :
            call' = [call EXCEPT !.fn = "write_trec_run", !.run_id = run_id,
                                 !.max_rank = max_rank,
                                 !.lines = write_trec_run(call.results, run_id, max_rank)]
    /\ pc' = "written"
    /\ UNCHANGED <<runs, arith, out>>

AddLine ==
    /\ pc \in {"input", "file"}
    /\ call.results = <<>>
    /\ Len(call.lines) < MaxLines
    /\ \E line \in GoodLines \cup BadLines :
            call' = [call EXCEPT !.lines = Append(@, line)]
    /\ pc' = "file"
    /\ UNCHANGED <<runs, arith, out>>

ReadRun ==
    /\ pc \in {"written", "file"}
    /\ out' = read_trec_run(call.lines)
    /\ pc' = IF pc = "written" THEN "reread" ELSE "read"
    /\ UNCHANGED <<runs, arith, call>>

\* the file taken as a qrels file: qid iter docid relevance
LoadQrels ==
    /\ pc = "file"
    /\ out' = load_qrels(call.lines)
    /\ pc' = "qrels"
    /\ UNCHANGED <<runs, arith, call>>

NextIO ==
    \/ AddResult
    \/ WriteRun
    \/ AddLine
    \/ ReadRun
    \/ LoadQrels

SpecIO == InitIO /\ [][NextIO]_vars

\* ------------------------------------------ topics (scripts/utils_topics.py)
\* The content of a topics file is a sequence of pieces: single characters,
\* and the tags and the word "Number:" as one piece each (the characters of
\* ids and query texts cannot spell them).  Tags match case-insensitively.
IsSpace(c) == c \in {" ", "\t", "\n"}
IsTop(c) == c \in {"<top>", "<TOP>"}
IsEndTop(c) == c \in {"</top>", "</TOP>"}
IsNum(c) == c \in {"<num>", "<NUM>"}
IsTitle(c) == c \in {"<title>", "<TITLE>"}
\* the piece begins with "<"
IsLt(c) == c = "<" \/ IsTop(c) \/ IsEndTop(c) \/ IsNum(c) \/ IsTitle(c)

\* str.strip()
RECURSIVE LStrip(_)
LStrip(str) ==
    IF str # <<>> /\ IsSpace(Head(str)) THEN LStrip(Tail(str)) ELSE str
RECURSIVE RStrip(_)
RStrip(str) ==
    IF str # <<>> /\ IsSpace(str[Len(str)])
    THEN RStrip(SubSeq(str, 1, Len(str) - 1)) ELSE str
Strip(str) == LStrip(RStrip(str))

\* the longest prefix of str whose pieces are all in Keep
RECURSIVE TakeWhile(_, _)
TakeWhile(str, Keep) ==
    IF str # <<>> /\ Head(str) \in Keep
    THEN <<Head(str)>> \o TakeWhile(Tail(str), Keep) ELSE <<>>

\* str from its first piece that is in Found, <<>> when there is none
RECURSIVE DropUntil(_, _)
DropUntil(str, Found) ==
    IF str = <<>> \/ Head(str) \in Found THEN str ELSE DropUntil(Tail(str), Found)

Pieces ==
    {" ", "\t", "\n", "<", "a", "b", "1", "2", "Number:",
     "<top>", "<TOP>", "</top>", "</TOP>", "<num>", "<NUM>", "<title>", "<TITLE>"}
Tops == {c \in Pieces : IsTop(c)}
EndTops == {c \in Pieces : IsEndTop(c)}
Nums == {c \in Pieces : IsNum(c)}
Titles == {c \in Pieces : IsTitle(c)}
NotSpace == {c \in Pieces : ~IsSpace(c)}
NotLt == {c \in Pieces : ~IsLt(c)}

\* re.findall(r'<top>(.*?)</top>', content): the texts between a <top> and
\* the first </top> after it, then on from behind that </top>
RECURSIVE topic_matches(_)
topic_matches(content) ==
    LET from == DropUntil(content, Tops)
    IN  IF from = <<>> THEN <<>>
        ELSE LET inner == Tail(from)
                 upto == DropUntil(inner, EndTops)
             IN  IF upto = <<>> THEN <<>>
                 ELSE <<SubSeq(inner, 1, Len(inner) - Len(upto))>>
                        \o topic_matches(Tail(upto))

\* _extract_field(topic_text, r'<num>(?:\s*Number:)?\s*(\S+)'): the first
\* non-blank word behind the first <num>, behind "Number:" when that comes
\* first and a word follows it
extract_num(topic_text) ==
    LET from == DropUntil(topic_text, Nums)
    IN  IF from = <<>> THEN <<>>
        ELSE LET word == LStrip(Tail(from))
                 behind == IF word # <<>> /\ Head(word) = "Number:"
                           THEN LStrip(Tail(word)) ELSE <<>>
             IN  IF behind # <<>> THEN TakeWhile(behind, NotSpace)
                 ELSE TakeWhile(word, NotSpace)

\* _extract_field(topic_text, r'<title>\s*(.*?)(?=<|$)', multiline=True):
\* the text behind the first <title> up to the next "<" or the end, stripped
extract_title(topic_text) ==
    LET from == DropUntil(topic_text, Titles)
    IN  IF from = <<>> THEN <<>>
        ELSE Strip(TakeWhile(LStrip(Tail(from)), NotLt))

\* a Topic is <<num, title>>; Topic.__init__ strips the title
RECURSIVE xml_topics(_)
xml_topics(matches) ==
    IF matches = <<>> THEN <<>>
    ELSE LET num == extract_num(Head(matches))
             title == extract_title(Head(matches))
         IN  (IF num # <<>> THEN <<<<num, Strip(title)>>>> ELSE <<>>)
                \o xml_topics(Tail(matches))

_parse_xml_style_topics(content) == xml_topics(topic_matches(content))

\* content.split('\n')
RECURSIVE SplitLines(_, _)
SplitLines(rest, line) ==
    IF rest = <<>> THEN <<line>>
    ELSE IF Head(rest) = "\n" THEN <<line>> \o SplitLines(Tail(rest), <<>>)
    ELSE SplitLines(Tail(rest), Append(line, Head(rest)))

\* the loop over the lines: strip, skip the empty line, split at the first
\* run of whitespace; a line of one word has no tab left in it and is dropped
RECURSIVE simple_topics(_)
simple_topics(lines) ==
    IF lines = <<>> THEN <<>>
    ELSE LET line == Strip(Head(lines))
             num == TakeWhile(line, NotSpace)
             title == LStrip(SubSeq(line, Len(num) + 1, Len(line)))
         IN  (IF line # <<>> /\ Len(num) < Len(line)
              THEN <<<<num, Strip(title)>>>> ELSE <<>>)
                \o simple_topics(Tail(lines))

_parse_simple_topics(content) == simple_topics(SplitLines(content, <<>>))

\* queries[topic.num] = topic.get_query_text()
RECURSIVE queries_of(_, _)
queries_of(queries, topics) ==
    IF topics = <<>> THEN [num \in Keys(queries) |-> Get(queries, num)]
    ELSE queries_of(DictSet(queries, Head(topics)[1], Head(topics)[2]), Tail(topics))

\* mutant: the line format is never tried
parse_trec_topics_xmlonly(content) ==
    Ok(queries_of(<<>>, _parse_xml_style_topics(content)))

parse_trec_topics(content) ==
    LET topics == _parse_xml_style_topics(content)
    IN  Ok(queries_of(<<>>, IF topics = <<>> THEN _parse_simple_topics(content)
                            ELSE topics))

\* sorted(topics.items()): by topic number
RECURSIVE sorted_items(_, _)
sorted_items(sorted, nums) ==
    IF nums = {} THEN sorted
    ELSE LET num == CHOOSE num \in nums : TRUE
         IN  sorted_items(InsertKey(sorted, num), nums \ {num})

\* f"{num}\t{query}\n"
SimpleRecord(num, query) == num \o <<"\t">> \o query \o <<"\n">>

\* "<top>\n", f"<num> Number: {num}\n", f"<title> {query}\n", "</top>\n\n"
XmlRecord(num, query) ==
    <<"<top>", "\n", "<num>", " ", "Number:", " ">> \o num \o <<"\n">>
        \o <<"<title>", " ">> \o query \o <<"\n">>
        \o <<"</top>", "\n", "\n">>

RECURSIVE write_records(_, _, _)
write_records(nums, topics, format) ==
    IF nums = <<>> THEN <<>>
    ELSE (IF format = "simple" THEN SimpleRecord(Head(nums), topics[Head(nums)])
          ELSE XmlRecord(Head(nums), topics[Head(nums)]))
            \o write_records(Tail(nums), topics, format)

\* the content of the file write_trec_topics leaves at output_path
write_trec_topics(topics, format) ==
    write_records(sorted_items(<<>>, DOMAIN topics), topics, format)

\* ---------------------------------------------- the topics file specification
\* call holds the arguments of write_trec_topics and the content of the
\* file at the path, out the outcome of parse_trec_topics on that file.
\* The file is either written by write_trec_topics or put together from
\* lines by another program.
TopicIds == {<<"1">>, <<"2">>}
TextChars == {"a", " ", "<", "\n"}
QueryTexts == UNION {[1..n -> TextChars] : n \in 0..MaxText}
TopicFormats == {"simple", "xml"}

\* lines of topics files: tags, fields, a line-format record
Chunks ==
    { <<"<top>", "\n">>, <<"</TOP>", "\n">>,
      <<"<num>", " ", "Number:", " ", "1", "\n">>,
      <<"<title>", " ", "a", "\n">>,
      <<"2", " ", "b", "\n">> }

NoTopics == [fn |-> "none", topics |-> <<>>, format |-> "none", content |-> <<>>]

InitTopics ==
    /\ runs = <<>>
    /\ arith = "exact"
    /\ pc = "input"
    /\ call = NoTopics
    /\ out = NoOut

AddTopic ==
    /\ pc = "input"
    /\ \E num \in TopicIds \ DOMAIN call.topics, query \in QueryTexts :
            call' = [call EXCEPT !.topics =
                        [n \in DOMAIN call.topics \cup {num} |->
                            IF n = num THEN query ELSE call.topics[n]]]
    /\ UNCHANGED <<runs, arith, pc, out>>

WriteTopics ==
    /\ pc = "input"
    /\ \E format \in TopicFormats :
            call' = [call EXCEPT !.fn = "write_trec_topics", !.format = format,
                                 !.content = write_trec_topics(call.topics, format)]
    /\ pc' = "written"
    /\ UNCHANGED <<runs, arith, out>>

AddChunk ==
    /\ pc \in {"input", "file"}
    /\ DOMAIN call.topics = {}
    /\ Len(SplitLines(call.content, <<>>)) <= MaxChunks
    /\ \E chunk \in Chunks : call' = [call EXCEPT !.content = @ \o chunk]
    /\ pc' = "file"
    /\ UNCHANGED <<runs, arith, out>>

ParseTopics ==
    /\ pc \in {"written", "file"}
    /\ out' = parse_trec_topics(call.content)
    /\ pc' = IF pc = "written" THEN "reparsed" ELSE "parsed"
    /\ UNCHANGED <<runs, arith, call>>

NextTopics ==
    \/ AddTopic
    \/ WriteTopics
    \/ AddChunk
    \/ ParseTopics

SpecTopics == InitTopics /\ [][NextTopics]_vars

\* ------------------------------- query expansion (scripts/query_expansion.py)
\* The searcher and the analyzer are outside the program.  A feedback
\* document is [id, found]: found is "none" when searcher.doc returns None,
\* "raise" when the lookup or the analysis raises, and "text" otherwise,
\* with tokens the analyzer's tokens of the document.  A query is given by
\* the analyzer's tokens of it.  The expanded query is the sequence of the
\* parts that " ".join puts together; warnings are the doc ids that
\* logger.warning was called for.
Part(term, kind, weight, text) ==
    [term |-> term, kind |-> kind, weight |-> weight, text |-> text]

\* f"{x:.4f}"
FormatFixed4(x) ==
    LET units == RoundHalfEven(Abs(x[1]) * 10000, x[2])
        text == IntStr(units \div 10000) \o <<".">>
                    \o ZeroPad(IntStr(units % 10000), 4)
    IN  IF x[1] < 0 THEN <<"-">> \o text ELSE text

\* Counter(tokens): the counts in order of first occurrence
RECURSIVE Counter(_, _)
Counter(counts, tokens) ==
    IF tokens = <<>> THEN counts
    ELSE Counter(DictIncr(counts, Head(tokens)), Tail(tokens))

\* for term, count in term_counts.items():
\*     term_scores[term] += (count / doc_length) / total_docs
RECURSIVE rm_terms(_, _, _, _)
rm_terms(term_scores, term_counts, doc_length, total_docs) ==
    IF term_counts = <<>> THEN term_scores
    ELSE LET term == Head(term_counts)[1]
             count == Head(term_counts)[2]
             tf == IF doc_length > 0 THEN Div(FromInt(count), FromInt(doc_length))
                   ELSE Zero
         IN  rm_terms(DictAdd(term_scores, term, Div(tf, FromInt(total_docs))),
                      Tail(term_counts), doc_length, total_docs)

\* the loop over doc_ids; acc is [scores, warnings]
RECURSIVE rm_docs(_, _, _)
rm_docs(acc, docs, total_docs) ==
    IF docs = <<>> THEN acc
    ELSE LET doc == Head(docs)
         IN  rm_docs(
                CASE doc.found = "none" -> acc
                  [] doc.found = "raise" ->
                        [acc EXCEPT !.warnings = Append(@, doc.id)]
                  [] OTHER ->
                        [acc EXCEPT !.scores =
                            rm_terms(@, Counter(<<>>, doc.tokens),
                                     Len(doc.tokens), total_docs)],
                Tail(docs), total_docs)

\* mutant: total_docs counts only the documents that were found
_build_relevance_model_found(docs) ==
    rm_docs([scores |-> <<>>, warnings |-> <<>>], docs,
            Cardinality({i \in DOMAIN docs : docs[i].found = "text"}))

_build_relevance_model(docs) ==
    rm_docs([scores |-> <<>>, warnings |-> <<>>], docs, Len(docs))

Member(term, tokens) == \E i \in DOMAIN tokens : tokens[i] = term

\* mutant: the query tokens without their weight
rm3_original_plain(tokens, weight) ==
    [i \in DOMAIN tokens |-> Part(tokens[i], "plain", Zero, <<>>)]

\* expanded_parts.append(f"{token}^{self.original_query_weight}")
rm3_original(tokens, weight) ==
    [i \in DOMAIN tokens |-> Part(tokens[i], "weight", weight, <<>>)]

\* mutant: the expansion terms that are query tokens are added too
RECURSIVE rm3_expansion_unfiltered(_, _, _)
rm3_expansion_unfiltered(terms, tokens, fb_weight) ==
    IF terms = <<>> THEN <<>>
    ELSE <<Part(Head(terms)[1], "fixed", Zero,
                FormatFixed4(Mul(Head(terms)[2], fb_weight)))>>
            \o rm3_expansion_unfiltered(Tail(terms), tokens, fb_weight)

\* the expansion terms that are not query tokens, f"{term}^{weighted_score:.4f}"
RECURSIVE rm3_expansion(_, _, _)
rm3_expansion(terms, tokens, fb_weight) ==
    IF terms = <<>> THEN <<>>
    ELSE (IF Member(Head(terms)[1], tokens) THEN <<>>
          ELSE <<Part(Head(terms)[1], "fixed", Zero,
                      FormatFixed4(Mul(Head(terms)[2], fb_weight)))>>)
            \o rm3_expansion(Tail(terms), tokens, fb_weight)

\* RM3Expander.expand_query
rm3_expand_query(original_tokens, docs, num_terms, weight) ==
    LET model == _build_relevance_model(docs)
        expansion_terms == TopSlice(sorted_docs(model.scores), num_terms)
    IN  [kind |-> "ok", exc |-> "none", warnings |-> model.warnings,
         query |-> rm3_original(original_tokens, weight)
                    \o rm3_expansion(expansion_terms, original_tokens,
                                     Sub(One, weight))]

\* for token in tokens: term_total_freq[token] += 1, and
\* term_doc_freq[token] += 1 at the token's first occurrence in the document
RECURSIVE prf_tokens(_, _, _)
prf_tokens(acc, tokens, seen_terms) ==
    IF tokens = <<>> THEN acc
    ELSE LET token == Head(tokens)
         IN  prf_tokens(
                [acc EXCEPT !.term_total_freq = DictIncr(@, token),
                            !.term_doc_freq = IF token \in seen_terms THEN @
                                              ELSE DictIncr(@, token)],
                Tail(tokens), seen_terms \cup {token})

\* the loop over feedback_docs
RECURSIVE prf_docs(_, _)
prf_docs(acc, docs) ==
    IF docs = <<>> THEN acc
    ELSE LET doc == Head(docs)
         IN  prf_docs(
                CASE doc.found = "none" -> acc
                  [] doc.found = "raise" ->
                        [acc EXCEPT !.warnings = Append(@, doc.id)]
                  [] OTHER -> prf_tokens(acc, doc.tokens, {}),
                Tail(docs))

\* a tf-idf score tf * math.log(num_docs / df) is kept as [tf, num_docs, df]
\* and compared exactly: tf1 * ln(n1/df1) < tf2 * ln(n2/df2) if and only if
\* (n1/df1)^tf1 < (n2/df2)^tf2
RECURSIVE IntPow(_, _)
IntPow(base, e) == IF e = 0 THEN 1 ELSE base * IntPow(base, e - 1)

\* mutant: the scores compared by tf alone, idf left out
TfLess(a, b) == a.tf < b.tf

TfIdfLess(a, b) ==
    IntPow(a.num_docs, a.tf) * IntPow(b.df, b.tf)
        < IntPow(b.num_docs, b.tf) * IntPow(a.df, a.tf)

\* term_scores[term] = tf * idf, in the order of term_total_freq
prf_scores(acc, num_docs) ==
    [i \in DOMAIN acc.term_total_freq |->
        LET term == acc.term_total_freq[i][1]
        IN  <<term, [tf |-> acc.term_total_freq[i][2], num_docs |-> num_docs,
                     df |-> Get(acc.term_doc_freq, term)]>>]

\* sorted(term_scores.items(), key=lambda x: x[1], reverse=True)
RECURSIVE InsertTfIdf(_, _)
InsertTfIdf(sorted, x) ==
    IF sorted = <<>> THEN <<x>>
    ELSE IF TfIdfLess(Head(sorted)[2], x[2]) THEN <<x>> \o sorted
    ELSE <<Head(sorted)>> \o InsertTfIdf(Tail(sorted), x)

RECURSIVE sorted_tfidf(_, _)
sorted_tfidf(sorted, items) ==
    IF items = <<>> THEN sorted
    ELSE sorted_tfidf(InsertTfIdf(sorted, Head(items)), Tail(items))

\* the expansion terms that are not query tokens, bare
RECURSIVE prf_expansion(_, _)
prf_expansion(terms, tokens) ==
    IF terms = <<>> THEN <<>>
    ELSE (IF Member(Head(terms)[1], tokens) THEN <<>>
          ELSE <<Part(Head(terms)[1], "plain", Zero, <<>>)>>)
            \o prf_expansion(Tail(terms), tokens)

\* PRFExpander.expand_query
prf_expand_query(original_tokens, docs, num_terms) ==
    LET acc == prf_docs([term_total_freq |-> <<>>, term_doc_freq |-> <<>>,
                         warnings |-> <<>>], docs)
        expansion_terms ==
            TopSlice(sorted_tfidf(<<>>, prf_scores(acc, Len(docs))), num_terms)
    IN  [kind |-> "ok", exc |-> "none", warnings |-> acc.warnings,
         query |-> [i \in DOMAIN original_tokens |->
                        Part(original_tokens[i], "plain", Zero, <<>>)]
                    \o prf_expansion(expansion_terms, original_tokens)]

\* ------------------------------------------------ the expansion specification
\* call holds the arguments of expand_query and what the searcher and the
\* analyzer give for the feedback documents, out the expanded query and
\* the warnings logged.
Terms == {"t1", "t2"}
DocTexts == UNION {[1..n -> Terms] : n \in 0..MaxDocLen}
OriginalQueries == {<<>>, <<"t1">>, <<"q">>, <<"q", "t1">>}
QueryWeights == {Rat(1, 2), Rat(3, 4)}
FeedbackIds == <<"d1", "d2", "d3", "d4">>

NoExpansion == [fn |-> "none", original_tokens |-> <<>>, docs |-> <<>>,
                num_terms |-> 0, weight |-> Zero]
NoQuery == [kind |-> "none", exc |-> "none", warnings |-> <<>>, query |-> <<>>]

InitExpand ==
    /\ runs = <<>>
    /\ arith = "exact"
    /\ pc = "input"
    /\ call = NoExpansion
    /\ out = NoQuery

\* the next feedback doc id of the list, with what its lookup gives
AddFeedbackDoc ==
    /\ pc = "input"
    /\ Len(call.docs) < MaxFeedback
    /\ \E found \in {"none", "raise", "text"} :
         \E tokens \in (IF found = "text" THEN DocTexts ELSE {<<>>}) :
            call' = [call EXCEPT !.docs =
                        Append(@, [id |-> FeedbackIds[Len(call.docs) + 1],
                                   found |-> found, tokens |-> tokens])]
    /\ UNCHANGED <<runs, arith, pc, out>>

ExpandRM3 ==
    /\ pc = "input"
    /\ \E tokens \in OriginalQueries, num_terms \in 0..MaxTerms,
          weight \in QueryWeights :
        /\ call' = [call EXCEPT !.fn = "rm3", !.original_tokens = tokens,
                                !.num_terms = num_terms, !.weight = weight]
        /\ out' = rm3_expand_query(tokens, call.docs, num_terms, weight)
    /\ pc' = "expanded"
    /\ UNCHANGED <<runs, arith>>

ExpandPRF ==
    /\ pc = "input"
    /\ \E tokens \in OriginalQueries, num_terms \in 0..MaxTerms :
        /\ call' = [call EXCEPT !.fn = "prf", !.original_tokens = tokens,
                                !.num_terms = num_terms]
        /\ out' = prf_expand_query(tokens, call.docs, num_terms)
    /\ pc' = "expanded"
    /\ UNCHANGED <<runs, arith>>

NextExpand ==
    \/ AddFeedbackDoc
    \/ ExpandRM3
    \/ ExpandPRF

SpecExpand == InitExpand /\ [][NextExpand]_vars

\* ------------------------------------------------------- expand_and_rerank
\* call holds the inputs of the batch (method, the topics with the
\* analyzer's tokens of each query, the base run), the position of the
\* loop over the topics and the expanded query of the query at hand; out
\* holds all_results, the warnings logged, and the output run file once
\* it is written.  The searcher and the analyzer are outside: what a lookup
\* or a search gives, an exception included, is chosen at the step.
FbDocs == 1
FbTerms == 1
TopK == 2

BatchTopics ==
    { <<<<qid, tokens>>>> : qid \in QIdStrs, tokens \in {<<"q">>, <<"t1">>} }
    \cup { << <<<<"q", "1">>, <<"q">>>>, <<<<"q", "2">>, tokens>> >> :
                tokens \in {<<"q">>, <<"t1">>} }
    \cup { << <<<<"q", "2">>, <<"q">>>>, <<<<"q", "1">>, <<"t1">>>> >> }

BaseEntries == { <<<<docid, 1, FromInt(1)>>>> : docid \in DocStrs }
BatchRuns ==
    { <<>> }
    \cup { <<<<qid, entries>>>> : qid \in QIdStrs, entries \in BaseEntries }
    \cup { << <<<<"q", "1">>, entries>>, <<<<"q", "2">>, entries>> >> :
                entries \in BaseEntries }

HitLists ==
    { <<>>, <<<<<<"d", "1">>, Rat(5, 4)>>>>,
      << <<<<"d", "2">>, Rat(5, 4)>>, <<<<"d", "1">>, Rat(1, 2)>> >> }

\* run_id = f"{base_run_name}_{method}_fb{fb_docs}", the base run being r.run
batch_run_id(method) ==
    <<"r", "_">>
        \o (IF method = "rm3" THEN <<"r", "m", "3">> ELSE <<"p", "r", "f">>)
        \o <<"_", "f", "b">> \o IntStr(FbDocs)

NoBatchOut == [kind |-> "none", exc |-> "none", all_results |-> <<>>,
               warnings |-> <<>>, written |-> FALSE, lines |-> <<>>]

InitBatch ==
    /\ runs = <<>>
    /\ arith = "exact"
    /\ pc = "loop"
    /\ \E method \in {"rm3", "prf"}, queries \in BatchTopics,
          base_run \in BatchRuns :
            call = [fn |-> "expand_and_rerank", method |-> method,
                    queries |-> queries, base_run |-> base_run, pos |-> 1,
                    expanded_query |-> <<>>]
    /\ out = NoBatchOut

\* if qid not in base_run: logger.warning(...); continue
SkipQuery ==
    /\ pc = "loop"
    /\ call.pos <= Len(call.queries)
    /\ call.queries[call.pos][1] \notin Keys(call.base_run)
    /\ call' = [call EXCEPT !.pos = @ + 1]
    /\ out' = [out EXCEPT !.warnings = Append(@, call.queries[call.pos][1])]
    /\ UNCHANGED <<runs, arith, pc>>

\* feedback_doc_ids = [docid for docid, rank, score in base_run[qid][:fb_docs]]
feedback_doc_ids(entries) ==
    LET top == TopSlice(entries, FbDocs) IN [i \in DOMAIN top |-> top[i][1]]

\* expanded_query = expander.expand_query(query_text, feedback_doc_ids, fb_terms);
\* analyzer.analyze(original_query) is outside the expanders' try blocks,
\* so what it raises leaves expand_query and the loop
ExpandQuery ==
    /\ pc = "loop"
    /\ call.pos <= Len(call.queries)
    /\ call.queries[call.pos][1] \in Keys(call.base_run)
    /\ LET qid == call.queries[call.pos][1]
           tokens == call.queries[call.pos][2]
           ids == feedback_doc_ids(Get(call.base_run, qid))
       IN  \E found \in {"none", "raise", "text"}, analyzed \in BOOLEAN :
            \E text \in (IF found = "text" THEN DocTexts ELSE {<<>>}) :
              LET docs == [i \in DOMAIN ids |->
                            [id |-> ids[i], found |-> found, tokens |-> text]]
                  expanded ==
                    IF call.method = "rm3"
                    THEN rm3_expand_query(tokens, docs, FbTerms, Rat(1, 2))
                    ELSE prf_expand_query(tokens, docs, FbTerms)
              IN  IF analyzed
                  THEN /\ call' = [call EXCEPT !.expanded_query = expanded.query]
                       /\ out' = [out EXCEPT !.warnings = @ \o expanded.warnings]
                       /\ pc' = "search"
                  ELSE /\ out' = [out EXCEPT !.kind = "raise", !.exc = "Exception",
                                            !.warnings = @ \o expanded.warnings]
                       /\ pc' = "raised"
                       /\ UNCHANGED call
    /\ UNCHANGED <<runs, arith>>

\* hits = searcher.search(expanded_query, k=top_k);
\* all_results.append((qid, hit.docid, hit.score)) for each hit
Search ==
    /\ pc = "search"
    /\ \E hits \in HitLists :
            out' = [out EXCEPT !.all_results =
                        @ \o [i \in DOMAIN hits |->
                                <<call.queries[call.pos][1], hits[i][1], hits[i][2]>>]]
    /\ call' = [call EXCEPT !.pos = @ + 1, !.expanded_query = <<>>]
    /\ pc' = "loop"
    /\ UNCHANGED <<runs, arith>>

\* searcher.search raises: nothing in the loop catches it
SearchRaises ==
    /\ pc = "search"
    /\ out' = [out EXCEPT !.kind = "raise", !.exc = "Exception"]
    /\ pc' = "raised"
    /\ UNCHANGED <<runs, arith, call>>

\* after the loop: write_trec_run(all_results, output_path, run_id, max_rank=top_k)
WriteExpandedRun ==
    /\ pc = "loop"
    /\ call.pos > Len(call.queries)
    /\ out' = [out EXCEPT !.kind = "ok", !.written = TRUE,
                          !.lines = write_trec_run(out.all_results,
                                                   batch_run_id(call.method), TopK)]
    /\ pc' = "done"
    /\ UNCHANGED <<runs, arith, call>>

NextBatch ==
    \/ SkipQuery
    \/ ExpandQuery
    \/ Search
    \/ SearchRaises
    \/ WriteExpandedRun

SpecBatch == InitBatch /\ [][NextBatch]_vars


\* ------------------------------------------------- run_hybrid_retrieval
\* runs is <<bm25_run, dense_run>>, what read_trec_run gave for the two run
\* files: query ids and doc ids are texts without blanks, every query id
\* has at least one entry.  call holds the entry point and the arguments,
\* out the fused results, all_results and the output run file once it is
\* written.
FormatFixed2(x) ==
    LET units == RoundHalfEven(Abs(x[1]) * 100, x[2])
        text == IntStr(units \div 100) \o <<".">> \o ZeroPad(IntStr(units % 100), 2)
    IN  IF x[1] < 0 THEN <<"-">> \o text ELSE text

\* the dispatch on method; weights = [alpha, 1.0 - alpha] for 'weighted'
hybrid_fuse(rs, method, alpha, rrf_k) ==
    CASE method = "rrf" -> reciprocal_rank_fusion(rs, rrf_k)
      [] method = "linear" -> linear_combination(rs, TRUE, <<>>)
      [] method = "weighted" ->
            linear_combination(rs, FALSE, <<alpha, Sub(One, alpha)>>)
      [] method = "combsum" -> combsum(rs)
      [] method = "combmnz" -> combmnz(rs)
      [] OTHER -> Raise("ValueError")

run_id_suffix(method, alpha, rrf_k) ==
    CASE method = "rrf" -> <<"_", "h", "y", "b", "r", "i", "d", "_", "r", "r", "f", "_", "k">> \o IntStr(rrf_k)
      [] method = "linear" -> <<"_", "h", "y", "b", "r", "i", "d", "_", "l", "i", "n", "e", "a", "r">>
      [] method = "weighted" -> <<"_", "h", "y", "b", "r", "i", "d", "_", "w">> \o FormatFixed2(alpha)
      [] method = "combsum" -> <<"_", "h", "y", "b", "r", "i", "d", "_", "c", "o", "m", "b", "s", "u", "m">>
      [] OTHER -> <<"_", "h", "y", "b", "r", "i", "d", "_", "c", "o", "m", "b", "m", "n", "z">>

\* run_id = f"{bm25_name}_{dense_name}{run_id_suffix}", the run files being
\* b.run and d.run
hybrid_run_id(method, alpha, rrf_k) ==
    <<"b", "_", "d">> \o run_id_suffix(method, alpha, rrf_k)

\* for qid, doc_scores in fused_results.items():
\*     for docid, score in doc_scores[:top_k]: all_results.append(...)
RECURSIVE hybrid_results(_, _, _)
hybrid_results(qids, fused, top_k) ==
    IF qids = <<>> THEN <<>>
    ELSE LET qid == Head(qids)
             top == TopSlice(fused[qid], top_k)
         IN  [i \in DOMAIN top |-> <<qid, top[i][1], top[i][2]>>]
                \o hybrid_results(Tail(qids), fused, top_k)

\* the orders a dict filled from a set of query ids can have
Orders(S) ==
    {order \in [1..Cardinality(S) -> S] :
        \A i, j \in DOMAIN order : i # j => order[i] # order[j]}

NoHybridOut == [kind |-> "none", exc |-> "none", fused |-> <<>>,
                all_results |-> <<>>, written |-> FALSE, lines |-> <<>>]

\* the output for the fused results: all_results and the file written
hybrid_output(res, method, alpha, rrf_k, top_k, qids) ==
    CHOOSE o \in
        { [kind |-> "ok", exc |-> "none", fused |-> res.fused,
           all_results |-> all_results, written |-> TRUE,
           lines |-> write_trec_run(all_results,
                                    hybrid_run_id(method, alpha, rrf_k), top_k)] :
            all_results \in {hybrid_results(qids, res.fused, top_k)} } : TRUE

\* qids is the order of fused_results, that of the iteration of a set
run_hybrid_retrieval(rs, method, alpha, rrf_k, top_k, qids) ==
    CHOOSE o \in
        { IF res.kind = "raise"
          THEN [NoHybridOut EXCEPT !.kind = "raise", !.exc = res.exc]
          ELSE hybrid_output(res, method, alpha, rrf_k, top_k, qids) :
            res \in {hybrid_fuse(rs, method, alpha, rrf_k)} } : TRUE

HybridMethods == {"rrf", "linear", "weighted", "combsum", "combmnz"}
Methods == HybridMethods \cup {"other"}
Alphas == {Rat(-1, 2), Zero, Rat(1, 4), One, Rat(3, 2)}
TopKs == (-1)..MaxTopK
HybridScores == 1..MaxScore

NoHybrid == [entry |-> "none", method |-> "rrf", alpha |-> Rat(1, 2),
             rrf_k |-> DefaultK, top_k |-> 0]

InitHybrid ==
    /\ runs = << <<>>, <<>> >>
    /\ arith = "exact"
    /\ pc = "input"
    /\ call = NoHybrid
    /\ out = NoHybridOut

\* one more record in a run file, ranked after the query's records so far
AddEntryH ==
    /\ pc = "input"
    /\ CountEntries(runs) < MaxEntriesH
    /\ \E i \in 1..2, qid \in QIdStrs, docid \in DocStrs, score \in HybridScores :
        LET run == runs[i]
            old == IF qid \in DOMAIN run THEN run[qid] ELSE <<>>
            entry == <<docid, Len(old) + 1, score>>
        IN  runs' = [runs EXCEPT ![i] =
                        [q \in DOMAIN run \cup {qid} |->
                            IF q = qid THEN Append(old, entry) ELSE run[q]]]
    /\ UNCHANGED <<arith, pc, call, out>>

\* all_qids of the two runs, \E qids: the order of the set's iteration
Retrieve(entry, method, alpha, top_k) ==
    /\ call' = [entry |-> entry, method |-> method, alpha |-> alpha,
                rrf_k |-> DefaultK, top_k |-> top_k]
    /\ \E qids \in Orders(all_qids(runs)) :
            out' = run_hybrid_retrieval(runs, method, alpha, DefaultK, top_k, qids)

\* run_hybrid_retrieval called directly
CallHybrid ==
    /\ pc = "input"
    /\ \E method \in Methods, top_k \in TopKs :
        \E alpha \in (IF method = "weighted" THEN Alphas ELSE {Rat(1, 2)}) :
            Retrieve("run_hybrid_retrieval", method, alpha, top_k)
    /\ pc' = "called"
    /\ UNCHANGED <<runs, arith>>

\* main: argparse rejects a method that is not one of the choices, and
\* parser.error ends the process when method is weighted and alpha is not
\* in [0, 1]; then run_hybrid_retrieval
CallMain ==
    /\ pc = "input"
    /\ \E method \in Methods, top_k \in TopKs :
        \E alpha \in (IF method = "weighted" THEN Alphas ELSE {Rat(1, 2)}) :
            IF method \notin HybridMethods
                \/ (method = "weighted" /\ ~(RLeq(Zero, alpha) /\ RLeq(alpha, One)))
            THEN /\ call' = [entry |-> "main", method |-> method, alpha |-> alpha,
                             rrf_k |-> DefaultK, top_k |-> top_k]
                 /\ out' = [NoHybridOut EXCEPT !.kind = "raise", !.exc = "SystemExit"]
            ELSE Retrieve("main", method, alpha, top_k)
    /\ pc' = "called"
    /\ UNCHANGED <<runs, arith>>

\* POST /search/hybrid: HybridSearchRequest is validated first (method one
\* of the Literal's, 0 <= alpha <= 1, top_k >= 1), a failure is answered
\* with 422; search_hybrid then imports weighted_fusion from run_hybrid,
\* which defines no such function, and the ImportError is answered with 500
PostHybrid ==
    /\ pc = "input"
    /\ \E method \in Methods, top_k \in TopKs, alpha \in Alphas :
        /\ call' = [entry |-> "api", method |-> method, alpha |-> alpha,
                    rrf_k |-> DefaultK, top_k |-> top_k]
        /\ out' = IF method \notin HybridMethods
                        \/ ~(RLeq(Zero, alpha) /\ RLeq(alpha, One))
                        \/ top_k < 1
                  THEN [NoHybridOut EXCEPT !.kind = "raise", !.exc = "422"]
                  ELSE [NoHybridOut EXCEPT !.kind = "raise", !.exc = "500"]
    /\ pc' = "called"
    /\ UNCHANGED <<runs, arith>>

NextHybrid ==
    \/ AddEntryH
    \/ CallHybrid
    \/ CallMain
    \/ PostHybrid

SpecHybrid == InitHybrid /\ [][NextHybrid]_vars

\* ------------------------------------------------ fusion of two runs
\* the two runs of test_rrf_basic and test_reciprocal_rank_fusion: both
\* have the query, the caller fills them with (docid, rank, score) triples
InitTwoRuns ==
    /\ runs = << [q \in QIds |-> <<>>], [q \in QIds |-> <<>>] >>
    /\ arith = "exact"
    /\ pc = "input"
    /\ call = NoCall
    /\ out = NoOut

AddEntryTwoRuns ==
    /\ pc = "input"
    /\ CountEntries(runs) < MaxEntriesA
    /\ \E r \in 1..2, q \in QIds, docid \in DocIds, rank \in 1..MaxRank :
            runs' = [runs EXCEPT ![r][q] = Append(@, <<docid, rank, 1>>)]
    /\ UNCHANGED <<arith, pc, call, out>>

NextTwoRuns ==
    \/ AddEntryTwoRuns
    \/ CallRRF

SpecTwoRuns == InitTwoRuns /\ [][NextTwoRuns]_vars

\* ------------------------------------------- the same call on permuted runs
\* the orders of the runs: perm[i] is the old place of the run now at i
Perms(S) == {perm \in [S -> S] : \A i, j \in S : i # j => perm[i] # perm[j]}
Inverse(perm) == [j \in DOMAIN perm |-> CHOOSE i \in DOMAIN perm : perm[i] = j]
Permuted(s, perm) == [i \in DOMAIN s |-> s[perm[i]]]

\* a fusion that returned is called again with the runs in another order,
\* the weights of linear_combination in the same order as their runs
PermuteAndCallAgain ==
    /\ pc = "called"
    /\ call.fn \in {"reciprocal_rank_fusion", "linear_combination"}
    /\ out.kind = "ok"
    /\ \E perm \in Perms(DOMAIN runs) :
        /\ runs' = Permuted(runs, perm)
        /\ call' = [fn |-> call.fn, k |-> call.k, isdefault |-> call.isdefault,
                    weights |-> IF call.isdefault THEN call.weights
                                ELSE Permuted(call.weights, perm),
                    perm |-> perm]
        /\ out' = Fuse(call', runs')
    /\ pc' = "permuted"
    /\ UNCHANGED arith

NextPermute ==
    \/ NewRun
    \/ AddEntry
    \/ CallRRF
    \/ CallLinearDefault
    \/ CallLinearWeights
    \/ PermuteAndCallAgain

SpecPermute == Init /\ [][NextPermute]_vars

\* ================================================================ claims
Called == pc \in {"called", "recalled"}
CalledOk(fn) == Called /\ call.fn = fn /\ out.kind = "ok"
FusionFns == {"reciprocal_rank_fusion", "linear_combination", "combsum", "combmnz"}

\* the positions of docid in run r's list for q
Positions(r, q, docid) ==
    IF q \in DOMAIN runs[r]
    THEN {i \in DOMAIN runs[r][q] : runs[r][q][i][1] = docid}
    ELSE {}

\* the runs that list docid for q
ListingRuns(q, docid) == {r \in DOMAIN runs : Positions(r, q, docid) # {}}

\* the doc ids the input runs list for q
InputDocs(q) == {docid \in DocIds : ListingRuns(q, docid) # {}}

\* the doc ids of the fused list for q (none when the result has no q)
FusedDocs(q) ==
    IF q \in DOMAIN out.fused
    THEN {out.fused[q][i][1] : i \in DOMAIN out.fused[q]}
    ELSE {}

\* the sum of f over a finite set, in exact arithmetic
RECURSIVE SumOver(_, _)
SumOver(S, f) ==
    IF S = {} THEN Zero
    ELSE LET x == CHOOSE x \in S : TRUE
         IN  RAdd(f[x], SumOver(S \ {x}, f))

\* C1: whatever the strategy, the doc ids of the fused list for q are exactly
\* the doc ids the input runs list for q, also when a run lacks q or has an
\* empty list for it.
C1_Totality ==
    (Called /\ call.fn \in FusionFns /\ out.kind = "ok")
        => \A q \in QIds : FusedDocs(q) = InputDocs(q)

\* combmnz over a run with two documents and a run without the query
C1_Witness ==
    /\ CalledOk("combmnz")
    /\ Len(runs) = 2
    /\ DOMAIN runs[2] = {}
    /\ FusedDocs("q1") = DocIds

\* C2 as stated: the RRF score of a doc id is a sum with one term 1/(k+rank)
\* per run that lists it, rank being a rank that run stores for it.
C2_OneTermPerRun ==
    CalledOk("reciprocal_rank_fusion") =>
        \A q \in DOMAIN out.fused : \A i \in DOMAIN out.fused[q] :
            LET docid == out.fused[q][i][1]
                R == ListingRuns(q, docid)
                Choices == {c \in [R -> 1..MaxEntries] :
                               \A r \in R : c[r] \in Positions(r, q, docid)}
            IN  \E c \in Choices :
                    out.fused[q][i][2] =
                        SumOver(R, [r \in R |->
                            RDiv(One, FromInt(call.k + runs[r][q][c[r]][2]))])

\* C2 amended: the RRF score of a doc id is the sum of 1/(k+rank) over every
\* occurrence of the doc id in the runs' lists for q, so a run that lists it
\* twice adds two terms; a run without q or without the doc id adds nothing.
C2_OneTermPerOccurrence ==
    CalledOk("reciprocal_rank_fusion") =>
        \A q \in DOMAIN out.fused : \A i \in DOMAIN out.fused[q] :
            LET docid == out.fused[q][i][1]
                Occ == {<<r, j>> \in (DOMAIN runs) \X (1..MaxEntries) :
                           j \in Positions(r, q, docid)}
            IN  out.fused[q][i][2] =
                    SumOver(Occ, [o \in Occ |->
                        RDiv(One, FromInt(call.k + runs[o[1]][q][o[2]][2]))])

\* a doc id listed twice by the first run, once by the second, with three
\* different terms
C2_Witness ==
    /\ CalledOk("reciprocal_rank_fusion")
    /\ call.k = DefaultK
    /\ Len(runs) = 2
    /\ \E docid \in DocIds :
        /\ Cardinality(Positions(1, "q1", docid)) = 2
        /\ Cardinality(Positions(2, "q1", docid)) = 1
        /\ runs[1]["q1"][1][2] # runs[1]["q1"][2][2]

\* C3: calling reciprocal_rank_fusion again on runs with the same query ids,
\* doc ids and ranks but other scores returns the same output.
SameButScores(rs1, rs2) ==
    /\ DOMAIN rs1 = DOMAIN rs2
    /\ \A r \in DOMAIN rs1 :
        /\ DOMAIN rs1[r] = DOMAIN rs2[r]
        /\ \A q \in DOMAIN rs1[r] :
            /\ Len(rs1[r][q]) = Len(rs2[r][q])
            /\ \A i \in DOMAIN rs1[r][q] :
                /\ rs1[r][q][i][1] = rs2[r][q][i][1]
                /\ rs1[r][q][i][2] = rs2[r][q][i][2]

C3_RankOnly ==
    [][(/\ Called /\ call.fn = "reciprocal_rank_fusion"
        /\ pc' = "recalled" /\ call' = call
        /\ SameButScores(runs, runs') /\ runs' # runs) => out' = out]_vars

\* a second call after a score was changed, with two fused documents of
\* different fused score whose input scores are ordered the other way round
C3_Witness ==
    /\ pc = "recalled"
    /\ call.fn = "reciprocal_rank_fusion"
    /\ Len(runs) = 1
    /\ "q1" \in DOMAIN runs[1]
    /\ Len(runs[1]["q1"]) = 2
    /\ runs[1]["q1"][1][2] < runs[1]["q1"][2][2]
    /\ runs[1]["q1"][1][3] < runs[1]["q1"][2][3]
    /\ Len(out.fused["q1"]) = 2
    /\ out.fused["q1"][1][1] = runs[1]["q1"][1][1]

\* C4 as stated: a weights vector of the wrong length, or whose sum is 1e-6
\* or more away from 1, makes linear_combination fail with a ValueError.
WeightSum == SumOver(DOMAIN call.weights, call.weights)
BadWeights ==
    \/ Len(call.weights) # Len(runs)
    \/ ~RLess(RAbs(RSub(WeightSum, One)), <<1, 1000000>>)

C4_ValueError ==
    (Called /\ call.fn = "linear_combination" /\ ~call.isdefault /\ BadWeights)
        => (out.kind = "raise" /\ out.exc = "ValueError" /\ out.fused = <<>>)

\* C5 as stated: every fusion function called with no runs (linear_combination
\* with its default weights) returns an empty result and raises nothing.
C5_EmptyRuns ==
    (/\ Called /\ call.fn \in FusionFns /\ runs = <<>>
     /\ call.fn = "linear_combination" => call.isdefault)
        => (out.kind = "ok" /\ DOMAIN out.fused = {})

\* -------------------------------------------- min-max scores, restated
ScoresOf(r, q) == {runs[r][q][i][3] : i \in DOMAIN runs[r][q]}
LeastOf(S) == CHOOSE x \in S : \A y \in S : x <= y
GreatestOf(S) == CHOOSE x \in S : \A y \in S : y <= x

\* (score - min) / (max - min) of the last entry run r has for docid, and 1
\* when the run's scores for q are all equal; r lists docid for q
NormOf(r, q, docid) ==
    LET lo == LeastOf(ScoresOf(r, q))
        hi == GreatestOf(ScoresOf(r, q))
        last == GreatestOf(Positions(r, q, docid))
    IN  IF lo = hi THEN One ELSE Rat(runs[r][q][last][3] - lo, hi - lo)

WeightOf(r) == IF call.isdefault THEN Rat(1, Len(runs)) ELSE call.weights[r]

\* C6: with valid weights the fused linear score of a doc id is the sum over
\* the runs listing it of weight_r * normalised score, the normalised score
\* being (score - min) / (max - min), or 1 when the run's scores are all
\* equal; runs that do not list the doc id add nothing.
C6_LinearScore ==
    CalledOk("linear_combination") =>
        \A q \in DOMAIN out.fused : \A i \in DOMAIN out.fused[q] :
            LET docid == out.fused[q][i][1]
                R == ListingRuns(q, docid)
            IN  out.fused[q][i][2] =
                    SumOver(R, [r \in R |-> RMul(WeightOf(r), NormOf(r, q, docid))])

\* weights 1/4 and 3/4, a doc id that the first run lists among different
\* scores and the second run lists alone
C6_Witness ==
    /\ CalledOk("linear_combination")
    /\ call.weights = <<Rat(1, 4), Rat(3, 4)>>
    /\ \E docid \in DocIds :
        /\ ListingRuns("q1", docid) = {1, 2}
        /\ Cardinality(ScoresOf(1, "q1")) = 2
        /\ Len(runs[2]["q1"]) = 1
        /\ NormOf(1, "q1", docid) = One

\* C7: every normalised score linear_combination, combsum and combmnz compute
\* lies in [0,1], and is 1 when the run's scores for the query are all equal;
\* so non-negative weights give no negative fused linear score.
C7_NormBounded ==
    (Called /\ call.fn \in {"linear_combination", "combsum", "combmnz"}
            /\ out.kind = "ok") =>
        /\ \A r \in DOMAIN runs : \A q \in DOMAIN runs[r] :
             runs[r][q] # <<>> =>
               LET ns == normalized_scores(runs[r][q])
               IN  \A j \in DOMAIN ns :
                     /\ RLeq(Zero, ns[j][2]) /\ RLeq(ns[j][2], One)
                     /\ Cardinality(ScoresOf(r, q)) = 1 => ns[j][2] = One
        /\ (call.fn = "linear_combination"
              /\ \A r \in DOMAIN runs : RLeq(Zero, WeightOf(r))) =>
             \A q \in DOMAIN out.fused : \A i \in DOMAIN out.fused[q] :
                 RLeq(Zero, out.fused[q][i][2])

\* default weights, a run with different scores beside a run with one entry,
\* and a document fused to score 0
C7_Witness ==
    /\ CalledOk("linear_combination")
    /\ call.isdefault
    /\ Len(runs) = 2
    /\ "q1" \in DOMAIN runs[1] /\ "q1" \in DOMAIN runs[2]
    /\ Cardinality(ScoresOf(1, "q1")) = 2
    /\ Len(runs[2]["q1"]) = 1
    /\ \E i \in DOMAIN out.fused["q1"] : out.fused["q1"][i][2] = Zero

\* C8: the combmnz score of a doc id listed by m of the runs is m times the
\* score combsum gives it on the same runs, a run counting even when the
\* doc id's normalised score in it is 0.
C8_MnzDominance ==
    CalledOk("combmnz") =>
        \A q \in DOMAIN out.fused : \A i \in DOMAIN out.fused[q] :
            LET docid == out.fused[q][i][1]
                m == Cardinality(ListingRuns(q, docid))
            IN  /\ m >= 1
                /\ docid \in Keys(combsum(runs).fused[q])
                /\ out.fused[q][i][2] =
                     RMul(FromInt(m), Get(combsum(runs).fused[q], docid))

\* a doc id listed by both runs whose normalised score in the first is 0
C8_Witness ==
    /\ CalledOk("combmnz")
    /\ \E docid \in DocIds :
        /\ ListingRuns("q1", docid) = {1, 2}
        /\ Cardinality(ScoresOf(1, "q1")) = 2
        /\ NormOf(1, "q1", docid) = Zero

\* ---------------------------------------------- combsum against linear
\* lin is what linear_combination returns on the same runs
SameQueriesAndDocs(lin) ==
    /\ lin.kind = "ok"
    /\ DOMAIN lin.fused = DOMAIN out.fused
    /\ \A q \in DOMAIN out.fused :
         /\ Len(lin.fused[q]) = Len(out.fused[q])
         /\ Keys(lin.fused[q]) = Keys(out.fused[q])

SameOrder(lin) ==
    \A q \in DOMAIN out.fused : \A i \in DOMAIN out.fused[q] :
        lin.fused[q][i][1] = out.fused[q][i][1]

\* every combsum score is N times the linear score of the same doc id, the
\* product taken exactly or as the float product
ScaledByN(lin) ==
    \A q \in DOMAIN out.fused : \A i \in DOMAIN out.fused[q] :
        LET x == Get(lin.fused[q], out.fused[q][i][1])
            n == FromInt(Len(runs))
        IN  \/ out.fused[q][i][2] = RMul(n, x)
            \/ out.fused[q][i][2] = Mul(n, x)

\* C9 as stated: over N >= 1 runs combsum and linear_combination with default
\* weights give the same query ids, the same doc ids in the same order and
\* combsum scores N times the linear ones.
C9_ScaledLinear ==
    (CalledOk("combsum") /\ runs # <<>>) =>
        LET lin == linear_combination(runs, TRUE, <<>>)
        IN  SameQueriesAndDocs(lin) /\ SameOrder(lin) /\ ScaledByN(lin)

\* C9 amended: the query ids and the doc ids always agree; the order and the
\* factor N hold in exact arithmetic, and in floating point for N <= 2, where
\* 1/N is a float.
C9_ScaledLinearExact ==
    (CalledOk("combsum") /\ runs # <<>>) =>
        LET lin == linear_combination(runs, TRUE, <<>>)
        IN  /\ SameQueriesAndDocs(lin)
            /\ (arith = "exact" \/ Len(runs) <= 2)
                 => (SameOrder(lin) /\ ScaledByN(lin))

\* floats, two runs, a document with normalised score 7/8
C9_Witness ==
    /\ CalledOk("combsum")
    /\ arith = "float"
    /\ Len(runs) = 2
    /\ \E i \in DOMAIN out.fused["q1"] : out.fused["q1"][i][2] = Rat(7, 8)

\* ------------------------------------------------------------- ordering
\* where docid is first met going through the runs in order
FirstRun(q, docid) == LeastOf(ListingRuns(q, docid))
FirstPos(q, docid) == LeastOf(Positions(FirstRun(q, docid), q, docid))
MetBefore(q, d1, d2) ==
    \/ FirstRun(q, d1) < FirstRun(q, d2)
    \/ FirstRun(q, d1) = FirstRun(q, d2) /\ FirstPos(q, d1) < FirstPos(q, d2)

\* C10: every fused list is in non-increasing order of fused score, doc ids of
\* equal score in the order in which the runs, taken in order, first list them
C10_Ordering ==
    (Called /\ call.fn \in FusionFns /\ out.kind = "ok") =>
        \A q \in DOMAIN out.fused : \A i, j \in DOMAIN out.fused[q] :
            i < j =>
                /\ ~RLess(out.fused[q][i][2], out.fused[q][j][2])
                /\ out.fused[q][i][2] = out.fused[q][j][2]
                     => MetBefore(q, out.fused[q][i][1], out.fused[q][j][1])

\* two documents of equal fused score, "d2" met first and returned first
C10_Witness ==
    /\ CalledOk("reciprocal_rank_fusion")
    /\ Len(runs) = 2
    /\ "q1" \in DOMAIN out.fused
    /\ Len(out.fused["q1"]) = 2
    /\ out.fused["q1"][1][2] = out.fused["q1"][2][2]
    /\ out.fused["q1"][1][1] = "d2"
    /\ Positions(1, "q1", "d1") = {}

\* what the runs hold for q: per run, whether it has q and its list
ListsFor(rs, q) ==
    [r \in DOMAIN rs |->
        IF q \in DOMAIN rs[r] THEN [has |-> TRUE, list |-> rs[r][q]]
        ELSE [has |-> FALSE, list |-> <<>>]]

\* what a result holds for q
FusedFor(o, q) ==
    IF q \in DOMAIN o.fused THEN [has |-> TRUE, list |-> o.fused[q]]
    ELSE [has |-> FALSE, list |-> <<>>]

\* C11: whatever the strategy, when the same call is made again on runs
\* that were edited, every query id whose lists are the same in all runs
\* before and after the edit gets the same fused list as before.
C11_PerQuery ==
    [][(Called /\ pc' = "recalled")
        => \A q \in QIdsQ :
             ListsFor(runs, q) = ListsFor(runs', q)
                => FusedFor(out, q) = FusedFor(out', q)]_vars

\* combmnz called again after an edit, both queries with fused documents
C11_Witness ==
    /\ pc = "recalled"
    /\ call.fn = "combmnz"
    /\ out.kind = "ok"
    /\ DOMAIN out.fused = QIdsQ
    /\ out.fused["q1"] # <<>>
    /\ out.fused["q2"] # <<>>

\* the results passed for qid, in input order
GroupOf(results, qid) == SelectSeq(results, LAMBDA res : res[1] = qid)

WrittenQIds == {call.results[i][1] : i \in DOMAIN call.results}

\* the ways to list the group by descending score, equal scores in input order
ScoreOrders(group) ==
    {p \in [DOMAIN group -> DOMAIN group] :
        /\ \A i, j \in DOMAIN group : i # j => p[i] # p[j]
        /\ \A i, j \in DOMAIN group :
              i < j => \/ RLess(group[p[j]][3], group[p[i]][3])
                       \/ (group[p[j]][3] = group[p[i]][3] /\ p[i] < p[j])}

\* max_rank is at least the longest per-query group
KeepsAll ==
    \A qid \in WrittenQIds : Len(GroupOf(call.results, qid)) <= call.max_rank

\* C12: a file written by write_trec_run with a max_rank that drops nothing,
\* whatever the run label, reads back as a run with exactly the query ids
\* written, each with its doc ids by descending score and the ranks 1..n.
C12_RoundTrip ==
    (pc = "reread" /\ KeepsAll) =>
        /\ out.kind = "ok"
        /\ DOMAIN out.fused = WrittenQIds
        /\ \A qid \in WrittenQIds :
            LET group == GroupOf(call.results, qid)
                read == out.fused[qid]
            IN  /\ Len(read) = Len(group)
                /\ \A i \in DOMAIN read : read[i][2] = i
                /\ \E p \in ScoreOrders(group) :
                        \A i \in DOMAIN read : read[i][1] = group[p[i]][2]

Written == pc \in {"written", "reread"}

\* the records of the file whose first field is qid
RecordsOf(qid) == SelectSeq(call.lines, LAMBDA line : Split(line)[1] = qid)

MinInt(a, b) == IF a < b THEN a ELSE b

\* C13: for max_rank >= 0 the file has min(n, max_rank) records per query
\* id; they are the best entries by descending score, equal scores in input
\* order, ranked 1, 2, ... without gaps, and no dropped entry scores higher
\* than a kept one.
C13_WriteRanking ==
    (Written /\ call.max_rank >= 0) =>
        \A qid \in QIdStrs :
            LET group == GroupOf(call.results, qid)
                recs == RecordsOf(qid)
                kept == MinInt(Len(group), call.max_rank)
            IN  /\ Len(recs) = kept
                /\ \E p \in ScoreOrders(group) :
                      /\ \A i \in 1..kept :
                            /\ Split(recs[i])[3] = group[p[i]][2]
                            /\ Split(recs[i])[4] = IntStr(i)
                            /\ Split(recs[i])[5] = FormatFixed6(group[p[i]][3])
                      /\ \A i \in 1..kept : \A j \in (kept + 1)..Len(group) :
                            RLeq(group[p[j]][3], group[p[i]][3])

\* three results of one query, the last two of equal score above the first,
\* written with max_rank 2
C13_Witness ==
    /\ pc = "written"
    /\ call.max_rank = 2
    /\ Len(call.results) = 3
    /\ \A i \in 1..3 : call.results[i][1] = <<"q", "1">>
    /\ RLess(call.results[1][3], call.results[2][3])
    /\ call.results[2][3] = call.results[3][3]
    /\ call.results[2][2] # call.results[3][2]
    /\ Len(call.lines) = 2

\* the lines of the file that are records of qid, in file order
IsRecord(line) ==
    /\ Len(Split(line)) >= 6
    /\ IsInt(Split(line)[4])
    /\ IsFloat(Split(line)[5])
FileRecordsOf(qid) ==
    SelectSeq(call.lines, LAMBDA line : IsRecord(line) /\ Split(line)[1] = qid)

\* the ways to list the records by ascending rank field, equal ranks in
\* file order
RankOrders(recs) ==
    {p \in [DOMAIN recs -> DOMAIN recs] :
        /\ \A i, j \in DOMAIN recs : i # j => p[i] # p[j]
        /\ \A i, j \in DOMAIN recs :
              i < j => \/ IntOf(Split(recs[p[i]])[4]) < IntOf(Split(recs[p[j]])[4])
                       \/ /\ IntOf(Split(recs[p[i]])[4]) = IntOf(Split(recs[p[j]])[4])
                          /\ p[i] < p[j]}

\* C14: after read_trec_run every query's entries are in non-decreasing
\* order of the rank read from the file, the ranks are those of the file
\* (gaps and repeats kept), and entries of equal rank are in file order.
C14_ReadOrdering ==
    (pc \in {"read", "reread"} /\ out.kind = "ok") =>
        \A qid \in DOMAIN out.fused :
            LET recs == FileRecordsOf(qid)
                read == out.fused[qid]
            IN  /\ Len(read) = Len(recs)
                /\ \A i, j \in DOMAIN read : i < j => read[i][2] <= read[j][2]
                /\ \E p \in RankOrders(recs) :
                      \A i \in DOMAIN read :
                        /\ read[i][1] = Split(recs[p[i]])[3]
                        /\ read[i][2] = IntOf(Split(recs[p[i]])[4])

\* a file with ranks 3, 1, 1 for one query: read as 1, 1, 3, the two
\* entries of rank 1 in file order
C14_Witness ==
    /\ pc = "read"
    /\ out.kind = "ok"
    /\ Len(call.lines) = 3
    /\ <<"q", "1">> \in DOMAIN out.fused
    /\ Len(out.fused[<<"q", "1">>]) = 3
    /\ Split(call.lines[1])[4] = <<"3">>
    /\ Split(call.lines[2])[3] = <<"d", "2">>
    /\ Split(call.lines[3])[3] = <<"d", "1">>
    /\ out.fused[<<"q", "1">>][1][1] = <<"d", "2">>
    /\ out.fused[<<"q", "1">>][2][1] = <<"d", "1">>
    /\ out.fused[<<"q", "1">>][2][2] = 1
    /\ out.fused[<<"q", "1">>][3][2] = 3

\* the lines read_trec_run can parse as records, per the six-field format
RunRecords == SelectSeq(call.lines, IsRecord)

\* the lines load_qrels can parse as records, per the four-field format
IsJudgment(line) == Len(Split(line)) >= 4 /\ IsInt(Split(line)[4])
Judgments == SelectSeq(call.lines, IsJudgment)

\* C15: reading a run file or a qrels file never fails on a malformed line;
\* the lines that are not records are dropped and every record of the file
\* is loaded.
C15_Tolerant ==
    /\ pc = "read" =>
        /\ out.kind = "ok"
        /\ \A i \in DOMAIN RunRecords :
            LET parts == Split(RunRecords[i])
            IN  /\ parts[1] \in DOMAIN out.fused
                /\ \E j \in DOMAIN out.fused[parts[1]] :
                      /\ out.fused[parts[1]][j][1] = parts[3]
                      /\ out.fused[parts[1]][j][2] = IntOf(parts[4])
    /\ pc = "qrels" =>
        /\ out.kind = "ok"
        /\ \A i \in DOMAIN Judgments :
            LET parts == Split(Judgments[i])
            IN  /\ parts[1] \in DOMAIN out.fused
                /\ parts[3] \in Keys(out.fused[parts[1]])

\* C15 for the lines the code does drop: a file whose malformed lines all
\* have too few fields is read without error and its records are loaded
C15_ShortLinesDropped ==
    (/\ pc \in {"read", "qrels"}
     /\ \A i \in DOMAIN call.lines :
            LET parts == Split(call.lines[i])
            IN  Len(parts) >= (IF pc = "read" THEN 6 ELSE 4) => IsInt(parts[4])
     /\ pc = "read" => \A i \in DOMAIN call.lines :
            Len(Split(call.lines[i])) >= 6 => IsFloat(Split(call.lines[i])[5]))
        => C15_Tolerant

\* the content has a <top>...</top> block
HasBlock == topic_matches(call.content) # <<>>

\* the content has a block in which a word follows a <num> tag
HasNumberedBlock ==
    \E i \in DOMAIN topic_matches(call.content) :
        LET block == topic_matches(call.content)[i]
        IN  \E j \in DOMAIN block :
                /\ IsNum(block[j])
                /\ \E k \in (j + 1)..Len(block) : ~IsSpace(block[k])

FromBlocks == queries_of(<<>>, _parse_xml_style_topics(call.content))
FromLines == queries_of(<<>>, _parse_simple_topics(call.content))

\* C16 as stated: the line format is parsed exactly when the content has
\* no <top>...</top> block; with a block the topics come from the blocks.
C16_FallbackIffNoBlock ==
    (pc \in {"parsed", "reparsed"}) =>
        out.fused = IF HasBlock THEN FromBlocks ELSE FromLines

\* C16 amended: the line format is parsed exactly when no block yields a
\* topic, that is when no block has a <num> tag followed by a word; blocks
\* without a topic number do not keep the lines from being parsed.
C16_FallbackIffNoTopic ==
    (pc \in {"parsed", "reparsed"}) =>
        out.fused = IF HasNumberedBlock THEN FromBlocks ELSE FromLines

\* a file with a numbered block and a line record: only the block's topic
C16_Witness ==
    /\ pc = "parsed"
    /\ HasNumberedBlock
    /\ FromLines # FromBlocks
    /\ DOMAIN FromLines # {}
    /\ DOMAIN out.fused = {<<"1">>}

\* C17: topics written by write_trec_topics in either format parse back to
\* the same mapping from topic id to query text.
C17_TopicRoundTrip ==
    pc = "reparsed" => (out.kind = "ok" /\ out.fused = call.topics)

\* C17 for plain query texts: not empty, no blank at either end, no line
\* break in the line format, no "<" in the block format
PlainText(query, format) ==
    /\ query # <<>>
    /\ Strip(query) = query
    /\ format = "simple" => \A i \in DOMAIN query : query[i] # "\n"
    /\ format = "xml" => \A i \in DOMAIN query : query[i] # "<"

C17_PlainRoundTrip ==
    (\A num \in DOMAIN call.topics : PlainText(call.topics[num], call.format))
        => C17_TopicRoundTrip

\* ---------------------------------------------------------------- C18
\* no feedback document contributes terms: the list is empty or every
\* lookup fails
Degenerate(docs) == \A i \in DOMAIN docs : docs[i].found \in {"none", "raise"}

PlainTokens(tokens) == [i \in DOMAIN tokens |-> Part(tokens[i], "plain", Zero, <<>>)]
WeightedTokens(tokens, weight) ==
    [i \in DOMAIN tokens |-> Part(tokens[i], "weight", weight, <<>>)]

\* C18 as stated: with no contributing feedback document both expanders
\* return exactly the original query's tokens, unchanged, and raise
\* nothing.
C18_Unchanged ==
    (pc = "expanded" /\ Degenerate(call.docs))
        => (out.kind = "ok" /\ out.query = PlainTokens(call.original_tokens))

\* C18 amended: with no contributing feedback document no expansion term
\* is added and nothing is raised; PRFExpander returns the original tokens
\* unchanged, RM3Expander returns each original token annotated with the
\* original query weight.
C18_NothingAdded ==
    (pc = "expanded" /\ Degenerate(call.docs))
        => /\ out.kind = "ok"
           /\ call.fn = "prf" => out.query = PlainTokens(call.original_tokens)
           /\ call.fn = "rm3" =>
                out.query = WeightedTokens(call.original_tokens, call.weight)

C18_Witness ==
    /\ pc = "expanded"
    /\ call.fn = "rm3"
    /\ Len(call.docs) = 2
    /\ call.docs[1].found = "none"
    /\ call.docs[2].found = "raise"
    /\ call.num_terms > 0
    /\ call.original_tokens = <<"q", "t1">>
    /\ out.query = WeightedTokens(call.original_tokens, call.weight)

\* ---------------------------------------------------------------- C19
\* the feedback documents whose lookup gave a text, in order
RECURSIVE Resolved(_)
Resolved(docs) ==
    IF docs = <<>> THEN <<>>
    ELSE (IF Head(docs).found = "text" THEN <<Head(docs)>> ELSE <<>>)
            \o Resolved(Tail(docs))

\* the ids of the feedback documents whose lookup failed, in order
RECURSIVE FailedIds(_)
FailedIds(docs) ==
    IF docs = <<>> THEN <<>>
    ELSE (IF Head(docs).found = "text" THEN <<>> ELSE <<Head(docs).id>>)
            \o FailedIds(Tail(docs))

\* the expanded query built from the resolved documents alone, the size
\* of the feedback list being what it is
FromResolved ==
    IF call.fn = "rm3"
    THEN LET scores == rm_docs([scores |-> <<>>, warnings |-> <<>>],
                               Resolved(call.docs), Len(call.docs)).scores
         IN  rm3_original(call.original_tokens, call.weight)
                \o rm3_expansion(TopSlice(sorted_docs(scores), call.num_terms),
                                 call.original_tokens, Sub(One, call.weight))
    ELSE LET acc == prf_docs([term_total_freq |-> <<>>, term_doc_freq |-> <<>>,
                              warnings |-> <<>>], Resolved(call.docs))
         IN  PlainTokens(call.original_tokens)
                \o prf_expansion(
                        TopSlice(sorted_tfidf(<<>>, prf_scores(acc, Len(call.docs))),
                                 call.num_terms),
                        call.original_tokens)

\* C19 as stated: whatever feedback documents fail to resolve, by an absent
\* document or by an exception, expand_query returns a query, every failed
\* document is skipped with a warning and contributes no term, and the
\* query is the one the remaining documents give.
C19_SkippedWithWarning ==
    pc = "expanded"
        => /\ out.kind = "ok"
           /\ out.warnings = FailedIds(call.docs)
           /\ out.query = FromResolved

\* what holds: the query is returned and is the one the remaining
\* documents give, and a warning is logged for the documents whose lookup
\* raised.
C19_SkippedNoTerms ==
    pc = "expanded"
        => /\ out.kind = "ok"
           /\ out.query = FromResolved
           /\ \A i \in DOMAIN call.docs :
                call.docs[i].found = "raise" => Member(call.docs[i].id, out.warnings)

\* ---------------------------------------------------------------- C20
\* C20 as stated: when expansion or re-retrieval fails for a query after
\* earlier queries completed, the results of the completed queries are in
\* the written output run.
C20_FailSoft ==
    (pc = "raised" /\ out.all_results # <<>>)
        => /\ out.written
           /\ out.lines = write_trec_run(out.all_results,
                                         batch_run_id(call.method), TopK)

\* what holds: the output run is written only after the loop has gone
\* through every topic, and then it holds the results of all of them.
C20_WrittenAtEndOnly ==
    out.written
        <=> /\ pc = "done"
            /\ call.pos > Len(call.queries)

\* ---------------------------------------------------------------- C21
AlphaOutside == ~(RLeq(Zero, call.alpha) /\ RLeq(call.alpha, One))
Rejected == out.kind = "raise" /\ out.fused = <<>> /\ ~out.written

\* C21 as stated: at every entry point that takes alpha (the direct call
\* of run_hybrid_retrieval, main, the API request), weighted fusion with
\* alpha outside [0, 1] ends with a precondition error, nothing fused and
\* no output run written.
C21_AlphaRejected ==
    (pc = "called" /\ call.method = "weighted" /\ AlphaOutside) => Rejected

\* what holds: main and the API request reject such an alpha before
\* anything is fused or written.
C21_RejectedByMainAndApi ==
    (pc = "called" /\ call.method = "weighted" /\ AlphaOutside
        /\ call.entry \in {"main", "api"}) => Rejected

\* ---------------------------------------------------------------- C22
\* the sum of the scores of a term-score mapping, in exact arithmetic
RECURSIVE ScoreMass(_)
ScoreMass(scores) ==
    IF scores = <<>> THEN Zero ELSE RAdd(Head(scores)[2], ScoreMass(Tail(scores)))

RM3Called == pc = "expanded" /\ call.fn = "rm3"

\* C22 as stated: for every feedback list of n >= 1 doc ids the scores of
\* the relevance model, before the top terms are taken, sum to exactly 1.
C22_MassOne ==
    (RM3Called /\ Len(call.docs) >= 1)
        => ScoreMass(_build_relevance_model(call.docs).scores) = One

\* what holds: the scores sum to 1 when every feedback document resolves to
\* a text with at least one token, and in general to the share of such
\* documents in the list.
C22_MassOfResolved ==
    (RM3Called /\ Len(call.docs) >= 1)
        => ScoreMass(_build_relevance_model(call.docs).scores)
            = Rat(Cardinality({i \in DOMAIN call.docs :
                                call.docs[i].found = "text"
                                    /\ call.docs[i].tokens # <<>>}),
                  Len(call.docs))

\* ---------------------------------------------------------------- C23
PRFCalled == pc = "expanded" /\ call.fn = "prf"

\* the tf-idf scores of the feedback terms of the call, <<term, score>>
FeedbackScores ==
    prf_scores(prf_docs([term_total_freq |-> <<>>, term_doc_freq |-> <<>>,
                         warnings |-> <<>>], call.docs),
               Len(call.docs))
ScoreOfTerm(term) ==
    FeedbackScores[CHOOSE i \in DOMAIN FeedbackScores : FeedbackScores[i][1] = term][2]
Candidates == {FeedbackScores[i][1] : i \in DOMAIN FeedbackScores}

\* tf * ln(num_docs / df) = 0, and > 0 (df is never above num_docs)
ZeroScore(term) ==
    ScoreOfTerm(term).tf = 0 \/ ScoreOfTerm(term).df = ScoreOfTerm(term).num_docs
PositiveScore(term) ==
    ScoreOfTerm(term).tf > 0 /\ ScoreOfTerm(term).df < ScoreOfTerm(term).num_docs

\* term occurs in every document of the feedback list
InAllDocs(term) ==
    /\ call.docs # <<>>
    /\ \A i \in DOMAIN call.docs :
        call.docs[i].found = "text" /\ Member(term, call.docs[i].tokens)

\* the places of the returned query after the original tokens
AppendedAt(term) ==
    {i \in DOMAIN out.query :
        i > Len(call.original_tokens) /\ out.query[i].term = term}
Appended(term) == AppendedAt(term) # {}

\* C23 as stated: a term that occurs in all n feedback documents has score
\* 0, and it is appended only when every candidate term has score 0.
C23_AllDocTermExcluded ==
    PRFCalled
        => \A term \in Candidates :
            InAllDocs(term)
                => /\ ZeroScore(term)
                   /\ Appended(term) => \A other \in Candidates : ZeroScore(other)

\* C23 amended: a term that occurs in all n feedback documents has score
\* 0, and it is appended only when fewer than num_terms candidate terms
\* have a positive score; the positive terms that are not query tokens are
\* then all appended, before it.
C23_AllDocTermLast ==
    PRFCalled
        => \A term \in Candidates :
            InAllDocs(term)
                => /\ ZeroScore(term)
                   /\ Appended(term) =>
                        /\ Cardinality({other \in Candidates : PositiveScore(other)})
                                < call.num_terms
                        /\ \A other \in Candidates :
                            (PositiveScore(other)
                                /\ ~Member(other, call.original_tokens))
                              => \E i \in AppendedAt(other) :
                                    \A j \in AppendedAt(term) : i < j

\* t1 is in both documents, t2 in one: with num_terms = 1 only t2 is added
C23_Witness ==
    /\ PRFCalled
    /\ Len(call.docs) = 2
    /\ InAllDocs("t1")
    /\ "t2" \in Candidates
    /\ PositiveScore("t2")
    /\ call.num_terms = 1
    /\ call.original_tokens = <<"q">>
    /\ Appended("t2")
    /\ ~Appended("t1")

\* ---------------------------------------------------------------- C24
\* the parts of the returned query after the original tokens
AppendedParts ==
    SubSeq(out.query, Len(call.original_tokens) + 1, Len(out.query))
AppendedTerms == {AppendedParts[i].term : i \in DOMAIN AppendedParts}

\* the feedback terms that are not original query tokens
NewCandidates == {term \in Candidates : ~Member(term, call.original_tokens)}

\* a <= b for tf-idf scores
TfIdfLeq(a, b) == ~TfIdfLess(b, a)

\* the original tokens first, then distinct new feedback terms, bare, in
\* descending order of score
PRFShape ==
    /\ Len(out.query) >= Len(call.original_tokens)
    /\ SubSeq(out.query, 1, Len(call.original_tokens))
            = PlainTokens(call.original_tokens)
    /\ \A i \in DOMAIN AppendedParts :
        /\ AppendedParts[i] = Part(AppendedParts[i].term, "plain", Zero, <<>>)
        /\ AppendedParts[i].term \in NewCandidates
    /\ \A i, j \in DOMAIN AppendedParts :
        i < j => /\ AppendedParts[i].term # AppendedParts[j].term
                 /\ TfIdfLeq(ScoreOfTerm(AppendedParts[j].term),
                             ScoreOfTerm(AppendedParts[i].term))

\* C24 as stated: the original tokens in order, then the num_terms
\* highest-scoring feedback terms that are not original tokens, by
\* descending score, bare; fewer than num_terms only when there are fewer
\* such terms.
C24_PRFOutput ==
    PRFCalled
        => /\ PRFShape
           /\ \A term \in NewCandidates \ AppendedTerms :
                \A other \in AppendedTerms :
                    TfIdfLeq(ScoreOfTerm(term), ScoreOfTerm(other))
           /\ Len(AppendedParts) = MinInt(call.num_terms, Cardinality(NewCandidates))

\* what holds: the shape, never more than num_terms terms, and the full
\* count when no original token is a feedback term.
C24_PRFOutputNoOverlap ==
    PRFCalled
        => /\ PRFShape
           /\ Len(AppendedParts) <= call.num_terms
           /\ NewCandidates = Candidates
                => /\ Len(AppendedParts)
                        = MinInt(call.num_terms, Cardinality(NewCandidates))
                   /\ \A term \in NewCandidates \ AppendedTerms :
                        \A other \in AppendedTerms :
                            TfIdfLeq(ScoreOfTerm(term), ScoreOfTerm(other))

\* ---------------------------------------------------------------- C25
\* the relevance model of the call: <<term, score>> in the order the terms
\* were first met
ModelScores == _build_relevance_model(call.docs).scores
ModelTerms == {ModelScores[i][1] : i \in DOMAIN ModelScores}
ModelIndex(term) == CHOOSE i \in DOMAIN ModelScores : ModelScores[i][1] = term
ModelScore(term) == ModelScores[ModelIndex(term)][2]

\* u comes before v: higher score, or equal score and met first
RanksBefore(u, v) ==
    \/ RLess(ModelScore(v), ModelScore(u))
    \/ ModelScore(u) = ModelScore(v) /\ ModelIndex(u) < ModelIndex(v)

\* the top num_terms terms of the relevance model
TopModelTerms ==
    {term \in ModelTerms :
        Cardinality({u \in ModelTerms : RanksBefore(u, term)}) < call.num_terms}

\* C25: RM3Expander.expand_query returns every original token annotated
\* with the original query weight, in order, then the terms among the top
\* num_terms of the relevance model (by descending score, ties in the order
\* first met) that are not original tokens, in that order, each annotated
\* with score * (1 - weight) to four decimals; so at most num_terms terms
\* are added and none of them is an original token.
C25_RM3Output ==
    RM3Called
        => /\ Len(out.query) >= Len(call.original_tokens)
           /\ SubSeq(out.query, 1, Len(call.original_tokens))
                = WeightedTokens(call.original_tokens, call.weight)
           /\ AppendedTerms = TopModelTerms \ {call.original_tokens[i] :
                                                i \in DOMAIN call.original_tokens}
           /\ Len(AppendedParts) = Cardinality(AppendedTerms)
           /\ Len(AppendedParts) <= call.num_terms
           /\ \A i \in DOMAIN AppendedParts :
                AppendedParts[i]
                    = Part(AppendedParts[i].term, "fixed", Zero,
                           FormatFixed4(RMul(ModelScore(AppendedParts[i].term),
                                             RSub(One, call.weight))))
           /\ \A i, j \in DOMAIN AppendedParts :
                i < j => RanksBefore(AppendedParts[i].term, AppendedParts[j].term)

\* one document 't1 t2', the two terms tied at 1/2: with num_terms = 1 and
\* weight 1/2 the query 'q t1' becomes q^0.5 t1^0.5 and nothing else, t1
\* being a query token and t2 not in the top 1
C25_Witness ==
    /\ RM3Called
    /\ call.original_tokens = <<"q", "t1">>
    /\ call.num_terms = 1
    /\ call.weight = Rat(1, 2)
    /\ Len(call.docs) = 1
    /\ call.docs[1].found = "text"
    /\ call.docs[1].tokens = <<"t1", "t2">>
    /\ out.query = WeightedTokens(<<"q", "t1">>, Rat(1, 2))

\* two documents 't2 t1' and 't2': t2 scores 3/4, t1 1/4; with weight 3/4
\* both are added, t2^0.1875 before t1^0.0625
C25_WitnessAdded ==
    /\ RM3Called
    /\ call.original_tokens = <<"q">>
    /\ call.num_terms = 2
    /\ call.weight = Rat(3, 4)
    /\ Len(out.query) = 3
    /\ out.query[2] = Part("t2", "fixed", Zero, <<"0", ".", "1", "8", "7", "5">>)
    /\ out.query[3] = Part("t1", "fixed", Zero, <<"0", ".", "0", "6", "2", "5">>)

\* ---------------------------------------------------------------- C26
\* every rank the runs have for q is between 1 and k + 1
RanksInRange(q) ==
    \A r \in DOMAIN runs :
        q \in DOMAIN runs[r]
            => \A i \in DOMAIN runs[r][q] :
                runs[r][q][i][2] >= 1 /\ runs[r][q][i][2] <= call.k + 1

\* no run lists a doc id twice for q
NoDuplicates(q) ==
    \A r \in DOMAIN runs : \A docid \in DocIds :
        Cardinality(Positions(r, q, docid)) <= 1

FusedPos(q, docid) == CHOOSE i \in DOMAIN out.fused[q] : out.fused[q][i][1] = docid
FusedScore(q, docid) == out.fused[q][FusedPos(q, docid)][2]

\* the doc ids listed by both runs come before, with a higher score than,
\* the doc ids listed by one run
BothBeforeOne(q) ==
    \A d \in InputDocs(q), e \in InputDocs(q) :
        (Cardinality(ListingRuns(q, d)) = 2 /\ Cardinality(ListingRuns(q, e)) = 1)
            => /\ RLess(FusedScore(q, e), FusedScore(q, d))
               /\ FusedPos(q, d) < FusedPos(q, e)

\* C26 as stated: reciprocal_rank_fusion over two runs whose ranks for the
\* query are between 1 and k + 1 gives every doc id listed by both runs a
\* strictly higher fused score, and an earlier place, than every doc id
\* listed by one run only.
C26_Agreement ==
    (CalledOk("reciprocal_rank_fusion") /\ Len(runs) = 2)
        => \A q \in DOMAIN out.fused : RanksInRange(q) => BothBeforeOne(q)

\* C26 amended: the same, for runs that list no doc id twice for the query.
C26_AgreementNoDuplicates ==
    (CalledOk("reciprocal_rank_fusion") /\ Len(runs) = 2)
        => \A q \in DOMAIN out.fused :
            (RanksInRange(q) /\ NoDuplicates(q)) => BothBeforeOne(q)

\* k = 60: "d2" is first in the first run, "d1" second in both runs, and
\* "d1" is returned first
C26_Witness ==
    /\ CalledOk("reciprocal_rank_fusion")
    /\ call.k = DefaultK
    /\ runs = << [q \in QIds |-> << <<"d2", 1, 1>>, <<"d1", 2, 1>> >>],
                 [q \in QIds |-> << <<"d1", 2, 1>> >>] >>
    /\ out.fused["q1"] = << <<"d1", Rat(1, 31)>>, <<"d2", Rat(1, 61)>> >>

\* ---------------------------------------------------------------- C27
\* the fused score of docid in the list, and its place
ListPos(list, docid) == CHOOSE i \in DOMAIN list : list[i][1] = docid
ListDocs(list) == {list[i][1] : i \in DOMAIN list}
ListScore(list, docid) == list[ListPos(list, docid)][2]

\* the two lists have the same doc ids with the same scores, and two doc ids
\* of different score are in the same order in both
SameUpToTies(l1, l2) ==
    /\ ListDocs(l1) = ListDocs(l2)
    /\ Len(l1) = Len(l2)
    /\ \A d \in ListDocs(l1) : ListScore(l1, d) = ListScore(l2, d)
    /\ \A d, e \in ListDocs(l1) :
        (ListScore(l1, d) # ListScore(l1, e) /\ ListPos(l1, d) < ListPos(l1, e))
            => ListPos(l2, d) < ListPos(l2, e)

\* C27: calling reciprocal_rank_fusion or linear_combination again with the
\* runs in another order (the weights ordered like their runs) returns, in
\* exact arithmetic, for every query the same doc ids with the same fused
\* scores; only doc ids of equal fused score may change places.
C27_PermutedRuns ==
    [][(pc = "called" /\ pc' = "permuted")
        => /\ out'.kind = "ok"
           /\ DOMAIN out'.fused = DOMAIN out.fused
           /\ \A q \in DOMAIN out.fused :
                SameUpToTies(out.fused[q], out'.fused[q])]_vars

\* the result for the runs in the order they had before
BeforePermuting ==
    Fuse([fn |-> call.fn, k |-> call.k, isdefault |-> call.isdefault,
          weights |-> IF call.isdefault THEN call.weights
                      ELSE Permuted(call.weights, Inverse(call.perm))],
         Permuted(runs, Inverse(call.perm)))

\* there are inputs for which the order changes: two doc ids of equal fused
\* score that changed places when the runs were swapped
C27_Witness ==
    /\ pc = "permuted"
    /\ out.kind = "ok"
    /\ "q1" \in DOMAIN out.fused
    /\ Len(out.fused["q1"]) = 2
    /\ out.fused["q1"][1][2] = out.fused["q1"][2][2]
    /\ BeforePermuting.fused["q1"] = <<out.fused["q1"][2], out.fused["q1"][1]>>

\* ---------------------------------------------------------------- C28
\* the occurrences of docid in the runs' lists for q, as <<run, position>>
Occurrences(q, docid) ==
    {<<r, j>> \in (DOMAIN runs) \X (1..MaxEntries) : j \in Positions(r, q, docid)}

\* the sum over the runs listing docid of the normalised score of its last
\* entry in the run, weighted by w
LastOccurrenceSum(q, docid, w) ==
    SumOver(ListingRuns(q, docid),
            [r \in ListingRuns(q, docid) |-> RMul(w[r], NormOf(r, q, docid))])

\* the score a strategy gives docid when a run may list it several times
DuplicateScore(q, docid) ==
    LET R == ListingRuns(q, docid)
        ones == [r \in DOMAIN runs |-> One]
    IN  CASE call.fn = "reciprocal_rank_fusion" ->
               SumOver(Occurrences(q, docid),
                       [o \in Occurrences(q, docid) |->
                           RDiv(One, FromInt(call.k + runs[o[1]][q][o[2]][2]))])
          [] call.fn = "linear_combination" ->
               LastOccurrenceSum(q, docid, [r \in DOMAIN runs |-> WeightOf(r)])
          [] call.fn = "combsum" -> LastOccurrenceSum(q, docid, ones)
          [] call.fn = "combmnz" ->
               RMul(FromInt(Cardinality(R)), LastOccurrenceSum(q, docid, ones))

\* C28: whatever the strategy and however often a run lists a doc id for a
\* query, the fused list has each doc id at most once; reciprocal_rank_fusion
\* adds 1/(k + rank) for every occurrence, linear_combination, combsum and
\* combmnz take the normalised score of the last occurrence in each run and
\* count the run once.
C28_Duplicates ==
    (Called /\ call.fn \in FusionFns /\ out.kind = "ok") =>
        \A q \in DOMAIN out.fused :
            /\ \A i, j \in DOMAIN out.fused[q] :
                 out.fused[q][i][1] = out.fused[q][j][1] => i = j
            /\ \A i \in DOMAIN out.fused[q] :
                 out.fused[q][i][2] = DuplicateScore(q, out.fused[q][i][1])

\* docid is listed twice by run r, its first entry with another normalised
\* score than its last
ListedTwice(r, docid) ==
    /\ "q1" \in DOMAIN runs[r]
    /\ Cardinality(Positions(r, "q1", docid)) = 2
    /\ Cardinality(ScoresOf(r, "q1")) = 2
    /\ runs[r]["q1"][LeastOf(Positions(r, "q1", docid))][3]
         # runs[r]["q1"][GreatestOf(Positions(r, "q1", docid))][3]

\* combmnz over a run that lists a doc id twice with different scores; the
\* doc id is in the fused list once
C28_Witness ==
    /\ CalledOk("combmnz")
    /\ Len(runs) = 1
    /\ \E docid \in DocIds :
        /\ ListedTwice(1, docid)
        /\ Cardinality({i \in DOMAIN out.fused["q1"] : out.fused["q1"][i][1] = docid}) = 1

\* ---------------------------------------------------------------- C29
HybridWritten == pc = "called" /\ out.kind = "ok" /\ out.written

\* list[:k] as Python slices it
PySlice(list, k) ==
    LET n == IF k >= 0 THEN k ELSE Len(list) + k
    IN  SubSeq(list, 1, IF n > Len(list) THEN Len(list) ELSE IF n < 0 THEN 0 ELSE n)

\* the run read back has, for every query, the doc ids of the first top_k
\* fused entries in fused order with ranks 1, 2, ..., and nothing else
ReadBackIsFusedTop(run) ==
    /\ run.kind = "ok"
    /\ DOMAIN run.fused \subseteq DOMAIN out.fused
    /\ \A q \in DOMAIN out.fused :
        LET top == PySlice(out.fused[q], call.top_k)
        IN  IF top = <<>> THEN q \notin DOMAIN run.fused
            ELSE /\ q \in DOMAIN run.fused
                 /\ Len(run.fused[q]) = Len(top)
                 /\ \A i \in DOMAIN top :
                      /\ run.fused[q][i][1] = top[i][1]
                      /\ run.fused[q][i][2] = i

\* C29 as stated: the file run_hybrid_retrieval writes, read back, is for
\* every query the fused list cut to its first top_k entries, in fused order
\* with ranks 1, 2, ..., whatever top_k is.
C29_FusedOrderWritten ==
    HybridWritten =>
        \A run \in {read_trec_run(out.lines)} : ReadBackIsFusedTop(run)

\* C29 amended: for top_k >= 0 the file run_hybrid_retrieval writes, read
\* back, is for every query the fused list cut to its first top_k entries, in
\* fused order with ranks 1, 2, ...; the sort of write_trec_run moves no
\* entry, entries of equal score included.
C29_FusedOrderWrittenTopK ==
    (HybridWritten /\ call.top_k >= 0) =>
        \A run \in {read_trec_run(out.lines)} : ReadBackIsFusedTop(run)

\* two fused entries of equal score, both written and read back in fused
\* order
C29_Witness ==
    /\ HybridWritten
    /\ call.top_k = 2
    /\ \E q \in DOMAIN out.fused :
        /\ Len(out.fused[q]) = 2
        /\ out.fused[q][1][2] = out.fused[q][2][2]
        /\ \A run \in {read_trec_run(out.lines)} :
            /\ run.kind = "ok"
            /\ Len(run.fused[q]) = 2
            /\ run.fused[q][1][1] = out.fused[q][1][1]

\* ---------------------------------------------------------------- C30
\* the places of the feedback list whose document was resolved, and skipped
ResolvedAt == {i \in DOMAIN call.docs : call.docs[i].found = "text"}
SkippedAt == (DOMAIN call.docs) \ ResolvedAt

CountIn(term, tokens) == Cardinality({j \in DOMAIN tokens : tokens[j] = term})
TermsOf(tokens) == {tokens[j] : j \in DOMAIN tokens}

\* what the resolved document at place i adds to the score of term: its
\* relative frequency in the document over the length of the feedback list
DocShare(i, term) ==
    RDiv(Rat(CountIn(term, call.docs[i].tokens), Len(call.docs[i].tokens)),
         FromInt(Len(call.docs)))

\* the mass of the document at place i: its shares over its terms
DocMass(i) ==
    SumOver(TermsOf(call.docs[i].tokens),
            [term \in TermsOf(call.docs[i].tokens) |-> DocShare(i, term)])

\* the relevance model is the sum of the shares of the documents in D
ModelIsSharesOf(D) ==
    /\ ModelTerms = UNION {TermsOf(call.docs[i].tokens) : i \in D}
    /\ \A term \in ModelTerms :
        LET With == {i \in D : term \in TermsOf(call.docs[i].tokens)}
        IN  ModelScore(term) = SumOver(With, [i \in With |-> DocShare(i, term)])

\* every candidate's idf is ln(n / df) with n the length of the feedback
\* list, and it is above 0 for a term of every resolved document as soon as
\* a document was skipped
IdfOverListLength ==
    \A term \in Candidates :
        /\ ScoreOfTerm(term).num_docs = Len(call.docs)
        /\ ScoreOfTerm(term).df =
             Cardinality({i \in ResolvedAt : term \in TermsOf(call.docs[i].tokens)})
        /\ ((\A i \in ResolvedAt : term \in TermsOf(call.docs[i].tokens))
              /\ SkippedAt # {})
             => ScoreOfTerm(term).df < ScoreOfTerm(term).num_docs

C30_WitnessPRF ==
    /\ PRFCalled
    /\ Len(call.docs) = 2
    /\ Cardinality(SkippedAt) = 1
    /\ call.original_tokens = <<"q">>
    /\ call.num_terms >= 1
    /\ \E term \in Candidates :
        /\ \A i \in ResolvedAt : term \in TermsOf(call.docs[i].tokens)
        /\ PositiveScore(term)
        /\ Appended(term)

====
